---- MODULE Spec2Model ----
(***************************************************************************)
(* A model of the quest object runtime (thomcc/quest, crate `core`):       *)
(*   - Parents, the prototype list of an object (obj/attributes/parents.rs)*)
(*     with the attribute operations of Pristine (types/pristine.rs);      *)
(*   - the Boolean and Number value types (types/boolean.rs, number.rs).   *)
(*                                                                         *)
(* SpecObj is the state machine of objects, their attribute tables and     *)
(* their Parents; SpecVal is the state machine of Boolean/Number operand   *)
(* cells and the operators applied to them; SpecFn applies the functions   *)
(* of Number and RustFn that only compute a result to drawn inputs.        *)
(***************************************************************************)
EXTENDS Integers, Sequences, FiniteSets, TLC

(* ------------------------------ bounds -------------------------------- *)
\* number of ordinary objects (the receiver and its prototypes)
NObj == 3
\* longest parent list the model builds
MaxParents == 2
\* Integer operands are -MaxInt..MaxInt
MaxInt == 4
\* finite Float operands are p/q with |p| <= MaxInt and 1 <= q <= MaxDen
MaxDen == 2

Objs == 1..NObj
\* Key::Literal keys and Key::Object keys
Literals == {"a"}
ObjKeys == {"ko"}
Keys == Literals \cup ObjKeys
\* attribute values: opaque objects
Vals == {"v1", "v2"}
\* the objects whose Parents the runs change (the receiver); the Parents of
\* the prototypes stay as constructed
Owners == {1}
\* cells that a Parents allocates when it is promoted (Object::default(),
\* Object::from(vec)); every Parents promotes at most once
HeapIds == (NObj + 1)..(2 * NObj)

\* Option<T>: None is <<>>, Some(v) is <<v>>
None == <<>>
Some(v) == <<v>>

VARIABLES
    attrs,     \* attrs[o][k]: the own attribute table of object o (Option)
    parents,   \* parents[o]: the Inner of the Parents of object o
    heap,      \* heap[id]: the payload of an object allocated by a Parents
    nextId,    \* the next object id to assign
    logical,   \* history: the parents successfully given to each Parents
    lastSet,   \* history: the value of the last successful set_attr(o, k)
    ret,       \* the last operation, its arguments and what it returned
    cells,     \* cells.this, cells.rhs: the payloads of the operand objects
    alias,     \* TRUE when `this` and `rhs` are the identical object
    out,       \* the last operator applied to the operands and its result
    call,      \* the last function applied to drawn inputs, and its result
    pc,        \* pc[t]: where thread t stands in its operation, and its locals
    sync       \* the locks and once-cells the threads synchronise on

objVars == <<attrs, parents, heap, nextId, logical, lastSet, ret>>
valVars == <<cells, alias, out>>
thrVars == <<pc, sync>>
vars ==
    <<attrs, parents, heap, nextId, logical, lastSet, ret, cells, alias, out,
      call, pc, sync>>

(* ------------------- Parents: the representation ---------------------- *)
\* enum Inner { None, Builtin(Vec<Object>), Object(Object) }
InnerNone == [tag |-> "None", vec |-> <<>>, obj |-> 0]
InnerBuiltin(vec) == [tag |-> "Builtin", vec |-> vec, obj |-> 0]
InnerObject(id) == [tag |-> "Object", vec |-> <<>>, obj |-> id]

\* payloads of the cells a Parents allocates
FreeCell == [kind |-> "Free", items |-> <<>>]
\* Object::default(): the null object, which is not a List
ObjectDefault == [kind |-> "Null", items |-> <<>>]
\* Object::from(Vec<Object>): a List object holding the vector
ObjectFromVec(vec) == [kind |-> "List", items |-> vec]

\* Result<T>: ok, the value, and how many parents the loop visited
Ok(v, n) == [ok |-> TRUE, val |-> v, seen |-> n]
Err(n) == [ok |-> FALSE, val |-> None, seen |-> n]

\* Object::downcast_call::<List>(): a List is used directly; any other
\* object is converted through its "@list" attribute (null converts to the
\* empty list)
downcast_call_List(cell) ==
    IF cell.kind = "List" THEN Ok(cell.items, 0) ELSE Ok(<<>>, 0)

\* Object::call_attr_lit("push", [parent]) on the cell a Parents holds: a
\* List appends; the null object has no "push" attribute (KeyError)
call_attr_lit_push(cell, parent) ==
    IF cell.kind = "List"
    THEN [ok |-> TRUE, cell |-> [cell EXCEPT !.items = Append(@, parent)]]
    ELSE [ok |-> FALSE, cell |-> cell]

\* Parents::add_parent
add_parent(inner, cell, parent) ==
    CASE inner.tag = "None" ->
            [ok |-> TRUE, inner |-> InnerBuiltin(<<parent>>), cell |-> cell]
      [] inner.tag = "Builtin" ->
            [ok |-> TRUE, inner |-> InnerBuiltin(Append(inner.vec, parent)),
             cell |-> cell]
      [] inner.tag = "Object" ->
            LET r == call_attr_lit_push(cell, parent)
            IN  [ok |-> r.ok, inner |-> inner, cell |-> r.cell]

\* to_object building the List from the vector it has already emptied
to_object_emptied(inner, id) ==
    CASE inner.tag = "None" ->
            [inner |-> InnerObject(id), cell |-> ObjectDefault,
             obj |-> id, fresh |-> TRUE]
      [] inner.tag = "Builtin" ->
            [inner |-> InnerObject(id), cell |-> ObjectFromVec(<<>>),
             obj |-> id, fresh |-> TRUE]
      [] inner.tag = "Object" ->
            [inner |-> inner, cell |-> FreeCell,
             obj |-> inner.obj, fresh |-> FALSE]

\* to_object promoting again a Parents that is already in state Object
to_object_again(inner, id) ==
    CASE inner.tag = "Builtin" ->
            [inner |-> InnerObject(id), cell |-> ObjectFromVec(inner.vec),
             obj |-> id, fresh |-> TRUE]
      [] OTHER ->
            [inner |-> InnerObject(id), cell |-> ObjectDefault,
             obj |-> id, fresh |-> TRUE]

\* Parents::to_object; id is the identity a new object would get
to_object(inner, id) ==
    CASE inner.tag = "None" ->
            [inner |-> InnerObject(id), cell |-> ObjectDefault,
             obj |-> id, fresh |-> TRUE]
      [] inner.tag = "Builtin" ->
            [inner |-> InnerObject(id), cell |-> ObjectFromVec(inner.vec),
             obj |-> id, fresh |-> TRUE]
      [] inner.tag = "Object" ->
            [inner |-> inner, cell |-> FreeCell,
             obj |-> inner.obj, fresh |-> FALSE]

\* Parents::with_iter: the sequence the closure iterates over
with_iter(inner, h) ==
    CASE inner.tag = "None" -> Ok(<<>>, 0)
      [] inner.tag = "Builtin" -> Ok(inner.vec, 0)
      [] inner.tag = "Object" -> downcast_call_List(h[inner.obj])

\* Parents::keys
keys(inner, h) == with_iter(inner, h)

(* ------------- lookup through the object and its parents -------------- *)
RECURSIVE get_value_lit(_, _), has_attr_lit(_, _), get_value(_, _), has_attr(_, _)
RECURSIVE get_lit_loop(_, _, _), has_lit_loop(_, _, _)
RECURSIVE get_obj_loop(_, _, _), has_obj_loop(_, _, _)

\* the loop of get_lit going on after a match: the last match wins
RECURSIVE get_lit_loop_last(_, _, _)
get_lit_loop_last(seq, i, key) ==
    IF i > Len(seq) THEN Ok(None, Len(seq))
    ELSE LET r == get_value_lit(seq[i], key)
             rest == get_lit_loop_last(seq, i + 1, key)
         IN  IF ~r.ok THEN Err(i)
             ELSE IF rest.ok /\ rest.val # None THEN rest
             ELSE IF r.val # None THEN Ok(r.val, Len(seq))
             ELSE rest

\* the `for parent in iter` loop of Parents::get_lit, from index i
get_lit_loop(seq, i, key) ==
    IF i > Len(seq) THEN Ok(None, Len(seq))
    ELSE LET r == get_value_lit(seq[i], key)
         IN  IF ~r.ok THEN Err(i)
             ELSE IF r.val # None THEN Ok(r.val, i)
             ELSE get_lit_loop(seq, i + 1, key)

\* Parents::get_lit
get_lit(inner, key) ==
    LET it == with_iter(inner, heap)
    IN  IF ~it.ok THEN Err(0) ELSE get_lit_loop(it.val, 1, key)

\* the loop of Parents::has_lit
has_lit_loop(seq, i, key) ==
    IF i > Len(seq) THEN Ok(FALSE, Len(seq))
    ELSE LET r == has_attr_lit(seq[i], key)
         IN  IF ~r.ok THEN Err(i)
             ELSE IF r.val THEN Ok(TRUE, i)
             ELSE has_lit_loop(seq, i + 1, key)

\* Parents::has_lit
has_lit(inner, key) ==
    LET it == with_iter(inner, heap)
    IN  IF ~it.ok THEN Err(0) ELSE has_lit_loop(it.val, 1, key)

\* the loop of Parents::get_obj
get_obj_loop(seq, i, key) ==
    IF i > Len(seq) THEN Ok(None, Len(seq))
    ELSE LET r == get_value(seq[i], key)
         IN  IF ~r.ok THEN Err(i)
             ELSE IF r.val # None THEN Ok(r.val, i)
             ELSE get_obj_loop(seq, i + 1, key)

\* Parents::get_obj
get_obj(inner, key) ==
    LET it == with_iter(inner, heap)
    IN  IF ~it.ok THEN Err(0) ELSE get_obj_loop(it.val, 1, key)

\* the loop of Parents::has_obj
has_obj_loop(seq, i, key) ==
    IF i > Len(seq) THEN Ok(FALSE, Len(seq))
    ELSE LET r == has_attr(seq[i], key)
         IN  IF ~r.ok THEN Err(i)
             ELSE IF r.val THEN Ok(TRUE, i)
             ELSE has_obj_loop(seq, i + 1, key)

\* Parents::has_obj
has_obj(inner, key) ==
    LET it == with_iter(inner, heap)
    IN  IF ~it.ok THEN Err(0) ELSE has_obj_loop(it.val, 1, key)

\* Object::get_value_lit: the own table, then Parents::get_lit
get_value_lit(o, key) ==
    IF attrs[o][key] # None THEN Ok(attrs[o][key], 0)
    ELSE get_lit(parents[o], key)

\* Object::has_attr_lit: the own table, then Parents::has_lit
has_attr_lit(o, key) ==
    IF attrs[o][key] # None THEN Ok(TRUE, 0)
    ELSE has_lit(parents[o], key)

\* Object::get_value: a literal key goes the literal way, an object key is
\* looked up in the own table and then by Parents::get_obj
get_value(o, key) ==
    IF key \in Literals THEN get_value_lit(o, key)
    ELSE IF attrs[o][key] # None THEN Ok(attrs[o][key], 0)
    ELSE get_obj(parents[o], key)

\* Object::has_attr
has_attr(o, key) ==
    IF key \in Literals THEN has_attr_lit(o, key)
    ELSE IF attrs[o][key] # None THEN Ok(TRUE, 0)
    ELSE has_obj(parents[o], key)

\* Object::get_attr: the value, or a KeyError when nothing defines the key
get_attr(o, key) ==
    LET r == get_value(o, key)
    IN  IF r.ok /\ r.val # None THEN Ok(r.val, r.seen) ELSE Err(r.seen)

\* Object::set_attr: insert or overwrite in the own table of o
set_attr(tbl, o, key, val) == [tbl EXCEPT ![o][key] = Some(val)]

\* Object::del_attr: remove from the own table of o
del_attr(tbl, o, key) == [tbl EXCEPT ![o][key] = None]

(* ------------------- Pristine: the attribute methods ------------------ *)
\* impls::__get_attr__
__get_attr__(this, attr) == get_attr(this, attr)

\* __set_attr__ returning the value without storing it
__set_attr__unstored(tbl, this, attr, val) ==
    [tbl |-> tbl, ok |-> TRUE, val |-> Some(val)]

\* impls::__set_attr__: the new table and the returned value
__set_attr__(tbl, this, attr, val) ==
    [tbl |-> set_attr(tbl, this, attr, val), ok |-> TRUE, val |-> Some(val)]

\* impls::__has_attr__
__has_attr__(this, attr) == has_attr(this, attr)

\* __del_attr__ removing the key from the parents of the receiver as well
__del_attr__chain(tbl, this, attr) ==
    LET seq == keys(parents[this], heap).val
        ps == {seq[i] : i \in 1..Len(seq)}
    IN  [tbl |-> [o \in DOMAIN tbl |->
                    IF o = this \/ o \in ps
                    THEN [tbl[o] EXCEPT ![attr] = None] ELSE tbl[o]],
         ok |-> tbl[this][attr] # None, val |-> tbl[this][attr]]

\* impls::__del_attr__: the new table and the removed value
__del_attr__(tbl, this, attr) ==
    [tbl |-> del_attr(tbl, this, attr), ok |-> tbl[this][attr] # None,
     val |-> tbl[this][attr]]

(* ------------------ values: f64, Number and Boolean ------------------ *)
\* FloatType (f64): a finite value is the rational p/q in lowest terms with
\* q > 0, the others are NaN and the two infinities; the sign of zero is
\* not kept
F(p, q) == [cls |-> "fin", p |-> p, q |-> q]
f64_NAN == [cls |-> "nan", p |-> 0, q |-> 1]
f64_INFINITY == [cls |-> "inf", p |-> 1, q |-> 1]
f64_NEG_INFINITY == [cls |-> "inf", p |-> -1, q |-> 1]

Abs(n) == IF n < 0 THEN -n ELSE n
Sign(n) == IF n < 0 THEN -1 ELSE 1

RECURSIVE GCD(_, _)
GCD(a, b) == IF b = 0 THEN a ELSE GCD(b, a % b)

\* the f64 of value p/q (q # 0), in lowest terms
Ratio(p, q) ==
    LET g == GCD(Abs(p), Abs(q))
    IN  F(Sign(q) * (p \div g), Abs(q) \div g)

\* The integers and whole floats of the model lie on a line with two
\* landmarks: Two53 + k stands for 2^53 + k (from there on f64 holds only
\* every second integer), Two63 for 2^63 (i64::MAX is 2^63 - 1), and a
\* whole float Two63 + k, k > 0, for a float above 2^63. The order and the
\* equality of the values are those of the numbers they stand for.
Two53 == 100000000
Two63 == 200000000
i64_MAX == Two63 - 1
i64_MIN == 0 - Two63

\* 2^53 + k rounded to a float: ties go to the even mantissa
RoundToEven(k) ==
    IF k % 2 = 0 THEN k
    ELSE IF ((k - 1) \div 2) % 2 = 0 THEN k - 1 ELSE k + 1

\* `n as FloatType`: exact below 2^53, rounded to the nearest float above
as_FloatType(n) ==
    IF Abs(n) < Two53 THEN F(n, 1)
    ELSE IF Abs(n) >= Two63 - 1 THEN F(Sign(n) * Two63, 1)
    ELSE F(Sign(n) * (Two53 + RoundToEven(Abs(n) - Two53)), 1)

\* `f as IntegerType`: truncates, saturates at the ends of i64, NaN is 0
as_IntegerType(f) ==
    CASE f.cls = "nan" -> 0
      [] f.cls = "inf" -> IF f.p > 0 THEN i64_MAX ELSE i64_MIN
      [] OTHER ->
            LET t == Sign(f.p) * (Abs(f.p) \div f.q)
            IN  IF t >= Two63 THEN i64_MAX
                ELSE IF t <= i64_MIN THEN i64_MIN
                ELSE t

\* f64 `l / r`
f64_div(l, r) ==
    CASE l.cls = "nan" \/ r.cls = "nan" -> f64_NAN
      [] l.cls = "inf" /\ r.cls = "inf" -> f64_NAN
      [] l.cls = "inf" /\ r.cls = "fin" ->
            IF l.p * Sign(r.p) > 0 THEN f64_INFINITY ELSE f64_NEG_INFINITY
      [] l.cls = "fin" /\ r.cls = "inf" -> F(0, 1)
      [] l.cls = "fin" /\ r.cls = "fin" ->
            IF r.p = 0
            THEN IF l.p = 0 THEN f64_NAN
                 ELSE IF l.p > 0 THEN f64_INFINITY ELSE f64_NEG_INFINITY
            ELSE Ratio(l.p * r.q, l.q * r.p)

\* f64 `-x`
f64_neg(x) == IF x.cls = "nan" THEN x ELSE [x EXCEPT !.p = 0 - x.p]

\* f64 `l + r`
f64_add(l, r) ==
    CASE l.cls = "nan" \/ r.cls = "nan" -> f64_NAN
      [] l.cls = "inf" /\ r.cls = "inf" -> IF l.p = r.p THEN l ELSE f64_NAN
      [] l.cls = "inf" /\ r.cls = "fin" -> l
      [] l.cls = "fin" /\ r.cls = "inf" -> r
      [] l.cls = "fin" /\ r.cls = "fin" -> Ratio(l.p * r.q + r.p * l.q, l.q * r.q)

\* f64 `l - r`
f64_sub(l, r) == f64_add(l, f64_neg(r))

\* f64 `l * r`
f64_mul(l, r) ==
    CASE l.cls = "nan" \/ r.cls = "nan" -> f64_NAN
      [] l.cls = "inf" \/ r.cls = "inf" ->
            IF l.p = 0 \/ r.p = 0 THEN f64_NAN
            ELSE IF Sign(l.p) = Sign(r.p) THEN f64_INFINITY ELSE f64_NEG_INFINITY
      [] OTHER -> Ratio(l.p * r.p, l.q * r.q)

\* the remainder of l by r (r # 0) truncated towards zero: it has the sign
\* of l
TruncRem(l, r) == Sign(l) * (Abs(l) % Abs(r))

\* f64 `l % r` (fmod)
f64_rem(l, r) ==
    CASE l.cls = "nan" \/ r.cls = "nan" -> f64_NAN
      [] l.cls = "inf" -> f64_NAN
      [] r.cls = "inf" -> l
      [] OTHER ->
            IF r.p = 0 THEN f64_NAN
            ELSE Ratio(TruncRem(l.p * r.q, r.p * l.q), l.q * r.q)

\* f64 `l == r`: NaN is equal to nothing
f64_eq(l, r) ==
    /\ l.cls # "nan"
    /\ r.cls = l.cls
    /\ l.p * r.q = r.p * l.q

\* f64::is_normal: finite, not zero (the model has no subnormal value)
is_normal(f) == f.cls = "fin" /\ f.p # 0

\* f64::floor, on a finite value
floor(f) == F(f.p \div f.q, 1)

\* enum Inner { Integer(IntegerType), Float(FloatType) } of Number
Integer(i) == [tag |-> "Integer", i |-> i, f |-> F(0, 1)]
Float(f) == [tag |-> "Float", i |-> 0, f |-> f]

\* Number::ZERO, Number::ONE, Number::NAN, Number::INF
ZERO == Integer(0)
ONE == Integer(1)
NAN == Float(f64_NAN)
INF == Float(f64_INFINITY)

\* f64::partial_cmp: None when an operand is NaN
f64_partial_cmp(l, r) ==
    IF l.cls = "nan" \/ r.cls = "nan" THEN None
    ELSE IF l.cls = "inf" \/ r.cls = "inf"
    THEN LET S(x) == IF x.cls = "inf" THEN 2 * x.p ELSE 0
         IN  Some(IF S(l) < S(r) THEN "Less"
                  ELSE IF S(l) > S(r) THEN "Greater" ELSE "Equal")
    ELSE Some(IF l.p * r.q < r.p * l.q THEN "Less"
              ELSE IF l.p * r.q > r.p * l.q THEN "Greater" ELSE "Equal")

\* Option::expect: the value, or a panic
expect(opt) == IF opt = None THEN "Panic" ELSE opt[1]

\* IntegerType::cmp
i64_cmp(l, r) == IF l < r THEN "Less" ELSE IF l > r THEN "Greater" ELSE "Equal"

\* Ord::cmp for Number
cmp(self, rhs) ==
    CASE self.tag = "Integer" /\ rhs.tag = "Integer" -> i64_cmp(self.i, rhs.i)
      [] self.tag = "Integer" /\ rhs.tag = "Float" ->
            expect(f64_partial_cmp(as_FloatType(self.i), rhs.f))
      [] self.tag = "Float" /\ rhs.tag = "Integer" ->
            expect(f64_partial_cmp(self.f, as_FloatType(rhs.i)))
      [] self.tag = "Float" /\ rhs.tag = "Float" ->
            expect(f64_partial_cmp(self.f, rhs.f))

\* PartialEq for Number
Number_eq(l, r) ==
    CASE l.tag = "Integer" /\ r.tag = "Integer" -> l.i = r.i
      [] l.tag = "Float" /\ r.tag = "Float" -> f64_eq(l.f, r.f)
      [] l.tag = "Integer" /\ r.tag = "Float" -> f64_eq(r.f, as_FloatType(l.i))
      [] l.tag = "Float" /\ r.tag = "Integer" -> f64_eq(l.f, as_FloatType(r.i))

\* what a call that panicked leaves in place of a Number
PanicN == [tag |-> "Panic", i |-> 0, f |-> F(0, 1)]

\* From<FloatType> for Number: a normal whole float becomes an Integer,
\* after the assertion that the float survives the trip through i64
Number_from_f64(f) ==
    IF is_normal(f) /\ f64_eq(floor(f), f)
    THEN IF is_normal(f) /\ f64_eq(as_FloatType(as_IntegerType(f)), f)
         THEN Integer(as_IntegerType(f))
         ELSE PanicN
    ELSE Float(f)

\* the operators impl_math_ops! is instantiated for: add, sub, mul, rem
MathFns == {"add", "sub", "mul", "rem"}

\* IntegerType `l.$fn(r)`; the remainder by zero panics
IntegerType_fn(fn, l, r) ==
    CASE fn = "add" -> Integer(l + r)
      [] fn = "sub" -> Integer(l - r)
      [] fn = "mul" -> Integer(l * r)
      [] fn = "rem" -> IF r = 0 THEN PanicN ELSE Integer(TruncRem(l, r))

\* FloatType `l.$fn(r)`
FloatType_fn(fn, l, r) ==
    CASE fn = "add" -> f64_add(l, r)
      [] fn = "sub" -> f64_sub(l, r)
      [] fn = "mul" -> f64_mul(l, r)
      [] fn = "rem" -> f64_rem(l, r)

\* $fn_assign of impl_math_ops!: the new value of self
math_assign(fn, self, rhs) ==
    CASE self.tag = "Integer" /\ rhs.tag = "Integer" ->
            IntegerType_fn(fn, self.i, rhs.i)
      [] self.tag = "Integer" /\ rhs.tag = "Float" ->
            Float(FloatType_fn(fn, as_FloatType(self.i), rhs.f))
      [] self.tag = "Float" /\ rhs.tag = "Integer" ->
            Float(FloatType_fn(fn, self.f, as_FloatType(rhs.i)))
      [] self.tag = "Float" /\ rhs.tag = "Float" ->
            Float(FloatType_fn(fn, self.f, rhs.f))

\* $fn of impl_math_ops!
math(fn, self, rhs) == math_assign(fn, self, rhs)

\* two's complement `l & r`, `l | r`, `l ^ r` and `!n` on IntegerType
RECURSIVE i64_and(_, _)
i64_and(l, r) ==
    IF l = 0 \/ r = 0 THEN 0
    ELSE IF l = -1 THEN r
    ELSE IF r = -1 THEN l
    ELSE (l % 2) * (r % 2) + 2 * i64_and(l \div 2, r \div 2)

i64_not(n) == (0 - n) - 1

i64_or(l, r) == i64_not(i64_and(i64_not(l), i64_not(r)))

i64_xor(l, r) == i64_and(i64_or(l, r), i64_not(i64_and(l, r)))

RECURSIVE Pow2(_)
Pow2(k) == IF k = 0 THEN 1 ELSE 2 * Pow2(k - 1)

\* `l << r` and `l >> r` for a shift amount within 0..63
i64_shl(l, r) == l * Pow2(r)
i64_shr(l, r) == l \div Pow2(r)

\* the operators impl_bitwise_ops! is instantiated for
BitFns == {"bitand", "bitor", "bitxor", "shl", "shr"}

\* IntegerType `n.$fn_assign(r)`: the new value of n
IntegerType_bit(fn, n, r) ==
    CASE fn = "bitand" -> i64_and(n, r)
      [] fn = "bitor" -> i64_or(n, r)
      [] fn = "bitxor" -> i64_xor(n, r)
      [] fn = "shl" -> i64_shl(n, r)
      [] fn = "shr" -> i64_shr(n, r)

\* a shift by an amount outside 0..63 overflows: it panics in a build with
\* overflow checks and shifts by the masked amount in one without
ShiftOverflows(fn, r) == fn \in {"shl", "shr"} /\ (r < 0 \/ r >= 64)

\* Result<_, NotAnInteger> of the bitwise operators, or a panic
BitOk(self) == [tag |-> "Ok", self |-> self, err |-> F(0, 1)]
BitErr(self, f) == [tag |-> "Err", self |-> self, err |-> f]
BitPanic(self) == [tag |-> "Panic", self |-> self, err |-> F(0, 1)]

\* TryFrom<Number> for IntegerType (impl_try_from_number!)
IntegerType_try_from(num) ==
    IF num.tag = "Integer" THEN [ok |-> TRUE, n |-> num.i, err |-> F(0, 1)]
    ELSE [ok |-> FALSE, n |-> 0, err |-> num.f]

\* $fn_assign that converts rhs before it looks at self
bitwise_assign_rhs_first(fn, self, rhs, checks) ==
    LET r == IntegerType_try_from(rhs)
    IN  IF ~r.ok THEN BitErr(self, r.err)
        ELSE IF self.tag = "Float" THEN BitErr(self, self.f)
        ELSE IF ShiftOverflows(fn, r.n) /\ checks THEN BitPanic(self)
        ELSE BitOk(self)

\* $fn_assign of impl_bitwise_ops!: `Inner::Integer(mut n)` binds a copy
\* of the integer, the operator assigns to that copy, and self keeps its
\* value
bitwise_assign(fn, self, rhs, checks) ==
    IF self.tag = "Float" THEN BitErr(self, self.f)
    ELSE LET r == IntegerType_try_from(rhs)
         IN  IF ~r.ok THEN BitErr(self, r.err)
             ELSE IF ShiftOverflows(fn, r.n) /\ checks THEN BitPanic(self)
             ELSE LET n == IntegerType_bit(fn, self.i, r.n)
                  IN  BitOk(self)

\* $fn of impl_bitwise_ops!: `self.$fn_assign(rhs)?; Ok(self)`
bitwise(fn, self, rhs, checks) == bitwise_assign(fn, self, rhs, checks)

\* Not for Number that gives `-n`
Number_not_neg(self) ==
    LET r == IntegerType_try_from(self)
    IN  IF r.ok THEN BitOk(Integer(0 - r.n)) ELSE BitErr(self, r.err)

\* Not for Number
Number_not(self) ==
    LET r == IntegerType_try_from(self)
    IN  IF r.ok THEN BitOk(Integer(i64_not(r.n))) ELSE BitErr(self, r.err)

\* division that wraps the quotient of two Integers as a Float unchanged
div_assign_keep_float(self, rhs) ==
    CASE self.tag = "Integer" /\ rhs.tag = "Integer" ->
            IF rhs.i = 0 THEN NAN
            ELSE Float(f64_div(as_FloatType(self.i), as_FloatType(rhs.i)))
      [] self.tag = "Integer" /\ rhs.tag = "Float" ->
            Float(f64_div(as_FloatType(self.i), rhs.f))
      [] self.tag = "Float" /\ rhs.tag = "Integer" ->
            Float(f64_div(self.f, as_FloatType(rhs.i)))
      [] self.tag = "Float" /\ rhs.tag = "Float" ->
            Float(f64_div(self.f, rhs.f))

\* division without the guard on an Integer zero divisor
div_assign_unguarded(self, rhs) ==
    CASE self.tag = "Integer" /\ rhs.tag = "Integer" ->
            Number_from_f64(f64_div(as_FloatType(self.i), as_FloatType(rhs.i)))
      [] self.tag = "Integer" /\ rhs.tag = "Float" ->
            Float(f64_div(as_FloatType(self.i), rhs.f))
      [] self.tag = "Float" /\ rhs.tag = "Integer" ->
            Float(f64_div(self.f, as_FloatType(rhs.i)))
      [] self.tag = "Float" /\ rhs.tag = "Float" ->
            Float(f64_div(self.f, rhs.f))

\* DivAssign for Number: the new value of self
div_assign(self, rhs) ==
    CASE self.tag = "Integer" /\ rhs.tag = "Integer" ->
            IF rhs.i = 0 THEN NAN
            ELSE Number_from_f64(f64_div(as_FloatType(self.i), as_FloatType(rhs.i)))
      [] self.tag = "Integer" /\ rhs.tag = "Float" ->
            Float(f64_div(as_FloatType(self.i), rhs.f))
      [] self.tag = "Float" /\ rhs.tag = "Integer" ->
            Float(f64_div(self.f, as_FloatType(rhs.i)))
      [] self.tag = "Float" /\ rhs.tag = "Float" ->
            Float(f64_div(self.f, rhs.f))

\* Div for Number
div(self, rhs) == div_assign(self, rhs)

\* From<Boolean> for Number mapping both values to ZERO
Number_from_Boolean_zero(b) == ZERO

\* From<Boolean> for Number
Number_from_Boolean(b) == IF b THEN ONE ELSE ZERO

\* From<Number> for Boolean
Boolean_from_Number(n) == IF Number_eq(n, ZERO) THEN FALSE ELSE TRUE

(* ---------------- values: objects and their operators ----------------- *)
\* the payload of an operand object: a Boolean, a Number or a Text (a third
\* native type, whose content the operators here never read)
BoolV(b) == [type |-> "Boolean", b |-> b, n |-> ZERO]
NumV(n) == [type |-> "Number", b |-> FALSE, n |-> n]
TextV == [type |-> "Text", b |-> FALSE, n |-> ZERO]
NoV == [type |-> "None", b |-> FALSE, n |-> ZERO]

\* what a method returns: Ok(res) or an error, whether a conversion
\* attribute of rhs was called, and the payload of the receiver afterwards
Res(ok, res, conv, this) == [ok |-> ok, res |-> res, conv |-> conv, this |-> this]

\* impls::at_bool of Number ("@bool")
at_bool(this) == Res(TRUE, BoolV(Boolean_from_Number(this.n)), FALSE, this)

\* convert::AtNumber for Boolean ("@num")
AtNumber_call(this) == Res(TRUE, NumV(Number_from_Boolean(this.b)), FALSE, this)

\* Object::with_ref_call::<Boolean> / downcast_call::<Boolean>: a Boolean is
\* used as it is, a Number is converted by calling its "@bool"
with_ref_call_Boolean(rhs) ==
    IF rhs.type = "Boolean" THEN [val |-> rhs.b, conv |-> FALSE]
    ELSE [val |-> at_bool(rhs).res.b, conv |-> TRUE]

\* Object::downcast_call::<Number>: a Number is used as it is, a Boolean is
\* converted by calling its "@num"
downcast_call_Number(rhs) ==
    IF rhs.type = "Number" THEN [val |-> rhs.n, conv |-> FALSE]
    ELSE [val |-> AtNumber_call(rhs).res.n, conv |-> TRUE]

\* operators::Not for Boolean
Not_call(this) == Res(TRUE, BoolV(~this.b), FALSE, this)

\* operators::BitAnd for Boolean
BitAnd_call(this, rhs) ==
    LET r == with_ref_call_Boolean(rhs)
    IN  Res(TRUE, BoolV(this.b /\ r.val), r.conv, this)

\* operators::BitOr for Boolean
BitOr_call(this, rhs) ==
    LET r == with_ref_call_Boolean(rhs)
    IN  Res(TRUE, BoolV(this.b \/ r.val), r.conv, this)

\* BitXor computed with `|`
BitXor_call_or(this, rhs) ==
    LET r == with_ref_call_Boolean(rhs)
    IN  Res(TRUE, BoolV(this.b \/ r.val), r.conv, this)

\* operators::BitXor for Boolean
BitXor_call(this, rhs) ==
    LET r == with_ref_call_Boolean(rhs)
    IN  Res(TRUE, BoolV(this.b # r.val), r.conv, this)

\* Eql for Boolean converting rhs first
Eql_call_converting(this, rhs, identical) ==
    LET r == with_ref_call_Boolean(rhs)
    IN  Res(TRUE, BoolV(identical \/ this.b = r.val), r.conv, this)

\* operators::Eql for Boolean; Object::with_ref::<Boolean> gives None for an
\* rhs that is not a Boolean
Eql_call(this, rhs, identical) ==
    IF identical THEN Res(TRUE, BoolV(TRUE), FALSE, this)
    ELSE LET r == IF rhs.type = "Boolean" THEN Some(rhs.b) ELSE None
         IN  Res(TRUE, BoolV(Some(this.b) = r), FALSE, this)

\* impls::eql of Number; Object::downcast_ref::<Number> gives None for an
\* rhs that is not a Number
eql(this, rhs) ==
    LET r == IF rhs.type = "Number" THEN Some(rhs.n) ELSE None
    IN  Res(TRUE, BoolV(IF r = None THEN FALSE ELSE Number_eq(this.n, r[1])),
            FALSE, this)

\* `Ok(this.clone())`: the object returned is the receiver itself
ThisV == [type |-> "This", b |-> FALSE, n |-> ZERO]

\* an object that is neither a Boolean nor a Number and has no "@bool" and
\* no "@num" attribute
PlainV == [type |-> "Plain", b |-> FALSE, n |-> ZERO]

\* the error of `args.arg(0)?` when there is no argument, and the error of
\* a conversion that failed
ArgErrorV == [type |-> "ArgError", b |-> FALSE, n |-> ZERO]
ConvErrorV == [type |-> "ConvError", b |-> FALSE, n |-> ZERO]

\* what an in-place method returns: as Res, and whether the receiver was
\* locked for writing (try_with_mut, try_downcast_mut)
ResMut(ok, res, conv, this, wlock) ==
    [ok |-> ok, res |-> res, conv |-> conv, this |-> this, wlock |-> wlock]

\* the objects with_ref_call / downcast_call can turn into a Boolean or a
\* Number
Convertible(rhs) == rhs.type \in {"Boolean", "Number"}

\* BitAndAssign computed with `|=`
BitAndAssign_call_or(this, rhs, identical) ==
    IF rhs = NoV THEN ResMut(FALSE, ArgErrorV, FALSE, this, FALSE)
    ELSE IF identical THEN ResMut(TRUE, ThisV, FALSE, this, FALSE)
    ELSE IF ~Convertible(rhs) THEN ResMut(FALSE, ConvErrorV, TRUE, this, TRUE)
    ELSE LET r == with_ref_call_Boolean(rhs)
         IN  ResMut(TRUE, ThisV, r.conv, BoolV(this.b \/ r.val), TRUE)

\* operators::BitAndAssign for Boolean
BitAndAssign_call(this, rhs, identical) ==
    IF rhs = NoV THEN ResMut(FALSE, ArgErrorV, FALSE, this, FALSE)
    ELSE IF identical THEN ResMut(TRUE, ThisV, FALSE, this, FALSE)
    ELSE IF ~Convertible(rhs) THEN ResMut(FALSE, ConvErrorV, TRUE, this, TRUE)
    ELSE LET r == with_ref_call_Boolean(rhs)
         IN  ResMut(TRUE, ThisV, r.conv, BoolV(this.b /\ r.val), TRUE)

\* operators::BitOrAssign for Boolean
BitOrAssign_call(this, rhs, identical) ==
    IF rhs = NoV THEN ResMut(FALSE, ArgErrorV, FALSE, this, FALSE)
    ELSE IF identical THEN ResMut(TRUE, ThisV, FALSE, this, FALSE)
    ELSE IF ~Convertible(rhs) THEN ResMut(FALSE, ConvErrorV, TRUE, this, TRUE)
    ELSE LET r == with_ref_call_Boolean(rhs)
         IN  ResMut(TRUE, ThisV, r.conv, BoolV(this.b \/ r.val), TRUE)

\* operators::BitXorAssign for Boolean: `lhs.0 |= rhs.0` for two objects,
\* `lhs.0 = false` for one
BitXorAssign_call(this, rhs, identical) ==
    IF rhs = NoV THEN ResMut(FALSE, ArgErrorV, FALSE, this, FALSE)
    ELSE IF identical THEN ResMut(TRUE, ThisV, FALSE, BoolV(FALSE), TRUE)
    ELSE IF ~Convertible(rhs) THEN ResMut(FALSE, ConvErrorV, TRUE, this, TRUE)
    ELSE LET r == with_ref_call_Boolean(rhs)
         IN  ResMut(TRUE, ThisV, r.conv, BoolV(this.b \/ r.val), TRUE)

\* what stands for the result of a call that panicked
PanicV == [type |-> "Panic", b |-> FALSE, n |-> ZERO]

\* the method names of the math operators
MathKey(fn) ==
    CASE fn = "add" -> "+" [] fn = "sub" -> "-" [] fn = "mul" -> "*"
      [] fn = "rem" -> "%"

\* impls::add, sub, mul, rem of Number (define_math_opers)
impls_math(fn, this, rhs) ==
    LET r == downcast_call_Number(rhs)
        n == math(fn, this.n, r.val)
    IN  IF n = PanicN THEN Res(FALSE, PanicV, r.conv, this)
        ELSE Res(TRUE, NumV(n), r.conv, this)

\* impls::add_assign, sub_assign, mul_assign, rem_assign of Number: the
\* receiver is returned
impls_math_assign(fn, this, rhs) ==
    IF rhs = NoV THEN Res(FALSE, ArgErrorV, FALSE, this)
    ELSE IF ~Convertible(rhs) THEN Res(FALSE, ConvErrorV, TRUE, this)
    ELSE LET r == downcast_call_Number(rhs)
             n == math_assign(fn, this.n, r.val)
         IN  IF n = PanicN THEN Res(FALSE, PanicV, r.conv, this)
             ELSE Res(TRUE, NumV(n), r.conv, NumV(n))

\* the error object made from a NotAnInteger(f)
NotAnInteger(f) == [type |-> "NotAnInteger", b |-> FALSE, n |-> Float(f)]

\* the method names of the bitwise operators
BitKey(fn) ==
    CASE fn = "bitand" -> "&" [] fn = "bitor" -> "|" [] fn = "bitxor" -> "^"
      [] fn = "shl" -> "<<" [] fn = "shr" -> ">>"

\* impls::bitand, bitor, bitxor, shl, shr of Number (define_bitwise_opers)
impls_bitwise(fn, this, rhs, checks) ==
    LET r == downcast_call_Number(rhs)
        n == bitwise(fn, this.n, r.val, checks)
    IN  CASE n.tag = "Ok" -> Res(TRUE, NumV(n.self), r.conv, this)
          [] n.tag = "Err" -> Res(FALSE, NotAnInteger(n.err), r.conv, this)
          [] n.tag = "Panic" -> Res(FALSE, PanicV, r.conv, this)

\* impls::bitand_assign, .. of Number: the receiver is returned
impls_bitwise_assign(fn, this, rhs, checks) ==
    IF rhs = NoV THEN Res(FALSE, ArgErrorV, FALSE, this)
    ELSE IF ~Convertible(rhs) THEN Res(FALSE, ConvErrorV, TRUE, this)
    ELSE
    LET r == downcast_call_Number(rhs)
        n == bitwise_assign(fn, this.n, r.val, checks)
    IN  CASE n.tag = "Ok" -> Res(TRUE, NumV(n.self), r.conv, NumV(n.self))
          [] n.tag = "Err" -> Res(FALSE, NotAnInteger(n.err), r.conv, NumV(n.self))
          [] n.tag = "Panic" -> Res(FALSE, PanicV, r.conv, NumV(n.self))

\* impls::bitnot of Number ("~")
impls_bitnot(this) ==
    LET n == Number_not(this.n)
    IN  IF n.tag = "Ok" THEN Res(TRUE, NumV(n.self), FALSE, this)
        ELSE Res(FALSE, NotAnInteger(n.err), FALSE, this)

\* impls::round and impls::sqrt of Number: `unimplemented!`
impls_round(this) == Res(FALSE, PanicV, FALSE, this)
impls_sqrt(this) == Res(FALSE, PanicV, FALSE, this)

\* impls::div of Number ("/")
impls_div(this, rhs) ==
    LET r == downcast_call_Number(rhs)
    IN  Res(TRUE, NumV(div(this.n, r.val)), r.conv, this)

\* div_assign that takes Number::default() for an argument it cannot get
impls_div_assign_default(this, rhs) ==
    LET r == IF rhs = NoV \/ ~Convertible(rhs) THEN [val |-> ZERO, conv |-> FALSE]
             ELSE downcast_call_Number(rhs)
        n == NumV(div_assign(this.n, r.val))
    IN  Res(TRUE, n, r.conv, n)

\* impls::div_assign of Number ("/="): the receiver is returned
impls_div_assign(this, rhs) ==
    IF rhs = NoV THEN Res(FALSE, ArgErrorV, FALSE, this)
    ELSE IF ~Convertible(rhs) THEN Res(FALSE, ConvErrorV, TRUE, this)
    ELSE LET r == downcast_call_Number(rhs)
             n == NumV(div_assign(this.n, r.val))
         IN  Res(TRUE, n, r.conv, n)

\* the operand payloads the runs start from
IntVals == (0 - MaxInt)..MaxInt
FloatVals ==
    {Ratio(p, q) : p \in IntVals, q \in 1..MaxDen}
        \cup {f64_NAN, f64_INFINITY, f64_NEG_INFINITY}
Numbers == {Integer(i) : i \in IntVals} \cup {Float(f) : f \in FloatVals}
Values == {BoolV(b) : b \in BOOLEAN} \cup {NumV(n) : n \in Numbers} \cup {TextV}

\* what a call finds as argument 0: an object, a Plain one included, or
\* nothing
Args0 == Values \cup {PlainV, NoV}

\* what `out` holds: the operator, what it returned, the payloads of the
\* receiver and of the argument when it was called, and whether the
\* receiver was locked for writing
Out(op, r, this0, rhs0) ==
    [op |-> op, ok |-> r.ok, res |-> r.res, conv |-> r.conv,
     this0 |-> this0, rhs0 |-> rhs0,
     wlock |-> IF "wlock" \in DOMAIN r THEN r.wlock ELSE FALSE]

\* what `call` holds: the function, its arguments and what it returned
Call(fn, args, res) == [fn |-> fn, args |-> args, res |-> res]
CallIdle == Call("init", <<>>, <<>>)

\* the value variables before any operator is applied
OutIdle == Out("init", Res(TRUE, NoV, FALSE, NoV), NoV, NoV)

(* ----------------------- SpecObj: the operations --------------------- *)
\* what `ret` holds: the operation, its receiver and arguments, the result
\* (ok, val, list, id), the number of parents visited (seen), and the
\* representation (pre) and parent list (list0) the operation started from
Ret(op, this, key, arg, ok, val, seen, list, pre, list0, id) ==
    [op |-> op, this |-> this, key |-> key, arg |-> arg, ok |-> ok,
     val |-> val, seen |-> seen, list |-> list, pre |-> pre,
     list0 |-> list0, id |-> id]

\* the cell a Parents in state Object holds (nothing otherwise)
HeldCell(inner) == IF inner.tag = "Object" THEN heap[inner.obj] ELSE FreeCell

\* Parents::default() / From<()> (None) or From<Vec<Object>> of an empty
\* vector (Builtin([])) for the receiver; the prototypes have no parents
InitObj ==
    /\ attrs = [o \in Objs |-> [k \in Keys |-> None]]
    /\ parents \in [Objs -> {InnerNone, InnerBuiltin(<<>>)}]
    /\ \A o \in Objs \ Owners : parents[o] = InnerNone
    /\ heap = [id \in HeapIds |-> FreeCell]
    /\ nextId = NObj + 1
    /\ logical = [o \in Objs |-> <<>>]
    /\ lastSet = [o \in Objs |-> [k \in Keys |-> None]]
    /\ ret = Ret("init", 0, "", 0, TRUE, None, 0, <<>>, "", <<>>, 0)
    /\ cells = <<>>
    /\ alias = FALSE
    /\ out = <<>>
    /\ call = <<>>
    /\ pc = <<>>
    /\ sync = <<>>

\* o.__set_attr__(k, v); the runs keep one key in the tables at a time
\* (lookups of different keys do not interact)
SetAttr(o, k, v) ==
    LET r == __set_attr__(attrs, o, k, v)
    IN  /\ \A q \in Objs, j \in Keys : attrs[q][j] # None => j = k
        /\ attrs' = r.tbl
        /\ lastSet' = [lastSet EXCEPT ![o][k] = IF r.ok THEN Some(v) ELSE @]
        /\ ret' = Ret("set_attr", o, k, 0, r.ok, r.val, 0, <<>>, "", <<>>, 0)
        /\ UNCHANGED <<parents, heap, nextId, logical, cells, alias, out, call,
                       thrVars>>

\* o.__del_attr__(k)
DelAttr(o, k) ==
    LET r == __del_attr__(attrs, o, k)
    IN  /\ attrs' = r.tbl
        /\ lastSet' = [lastSet EXCEPT ![o][k] = None]
        /\ ret' = Ret("del_attr", o, k, 0, r.ok, r.val, 0, <<>>, "", <<>>, 0)
        /\ UNCHANGED <<parents, heap, nextId, logical, cells, alias, out, call,
                       thrVars>>

\* o.__get_attr__(k)
GetAttr(o, k) ==
    LET r == __get_attr__(o, k)
    IN  /\ ret' = Ret("get_attr", o, k, 0, r.ok, r.val, r.seen, <<>>, "", <<>>, 0)
        /\ UNCHANGED <<attrs, parents, heap, nextId, logical, lastSet, cells,
                       alias, out, call,
                       thrVars>>

\* o.__has_attr__(k)
HasAttr(o, k) ==
    LET r == __has_attr__(o, k)
    IN  /\ ret' = Ret("has_attr", o, k, 0, r.ok, Some(r.val), r.seen, <<>>, "",
                      <<>>, 0)
        /\ UNCHANGED <<attrs, parents, heap, nextId, logical, lastSet, cells,
                       alias, out, call,
                       thrVars>>

\* parents[o].add_parent(p); p is an object below o that o does not have
\* yet, so the graph stays acyclic, and the list stays within MaxParents
AddParent(o, p) ==
    LET inner == parents[o]
        before == keys(inner, heap)
        r == add_parent(inner, HeldCell(inner), p)
    IN  /\ p > o
        /\ Len(before.val) < MaxParents
        /\ \A i \in 1..Len(before.val) : before.val[i] # p
        /\ parents' = [parents EXCEPT ![o] = r.inner]
        /\ heap' = IF inner.tag = "Object"
                   THEN [heap EXCEPT ![inner.obj] = r.cell] ELSE heap
        /\ logical' = [logical EXCEPT ![o] = IF r.ok THEN Append(@, p) ELSE @]
        /\ ret' = Ret("add_parent", o, "", p, r.ok, None, 0, <<>>, inner.tag,
                      before.val, 0)
        /\ UNCHANGED <<attrs, nextId, lastSet, cells, alias, out, call,
                       thrVars>>

\* parents[o].to_object()
ToObject(o) ==
    LET inner == parents[o]
        r == to_object(inner, nextId)
    IN  /\ parents' = [parents EXCEPT ![o] = r.inner]
        /\ heap' = IF r.fresh THEN [heap EXCEPT ![r.obj] = r.cell] ELSE heap
        /\ nextId' = IF r.fresh THEN nextId + 1 ELSE nextId
        /\ ret' = Ret("to_object", o, "", 0, TRUE, None, 0, <<>>, inner.tag,
                      <<>>, r.obj)
        /\ UNCHANGED <<attrs, logical, lastSet, cells, alias, out, call,
                       thrVars>>

\* parents[o].keys()
KeysOp(o) ==
    LET r == keys(parents[o], heap)
    IN  /\ ret' = Ret("keys", o, "", 0, r.ok, None, 0, r.val, parents[o].tag,
                      <<>>, 0)
        /\ UNCHANGED <<attrs, parents, heap, nextId, logical, lastSet, cells,
                       alias, out, call,
                       thrVars>>

\* parents[o].has_lit(k)
HasLit(o, k) ==
    LET r == has_lit(parents[o], k)
    IN  /\ ret' = Ret("has_lit", o, k, 0, r.ok, Some(r.val), r.seen, <<>>,
                      parents[o].tag, <<>>, 0)
        /\ UNCHANGED <<attrs, parents, heap, nextId, logical, lastSet, cells,
                       alias, out, call,
                       thrVars>>

\* parents[o].get_lit(k)
GetLit(o, k) ==
    LET r == get_lit(parents[o], k)
    IN  /\ ret' = Ret("get_lit", o, k, 0, r.ok, r.val, r.seen, <<>>,
                      parents[o].tag, <<>>, 0)
        /\ UNCHANGED <<attrs, parents, heap, nextId, logical, lastSet, cells,
                       alias, out, call,
                       thrVars>>

\* parents[o].has_obj(k)
HasObj(o, k) ==
    LET r == has_obj(parents[o], k)
    IN  /\ ret' = Ret("has_obj", o, k, 0, r.ok, Some(r.val), r.seen, <<>>,
                      parents[o].tag, <<>>, 0)
        /\ UNCHANGED <<attrs, parents, heap, nextId, logical, lastSet, cells,
                       alias, out, call,
                       thrVars>>

\* parents[o].get_obj(k)
GetObj(o, k) ==
    LET r == get_obj(parents[o], k)
    IN  /\ ret' = Ret("get_obj", o, k, 0, r.ok, r.val, r.seen, <<>>,
                      parents[o].tag, <<>>, 0)
        /\ UNCHANGED <<attrs, parents, heap, nextId, logical, lastSet, cells,
                       alias, out, call,
                       thrVars>>

NextObj ==
    \/ \E o \in Objs, k \in Keys, v \in Vals : SetAttr(o, k, v)
    \/ \E o \in Objs, k \in Keys : DelAttr(o, k)
    \/ \E o \in Objs, k \in Keys : GetAttr(o, k)
    \/ \E o \in Objs, k \in Keys : HasAttr(o, k)
    \/ \E o \in Owners, p \in Objs : AddParent(o, p)
    \/ \E o \in Owners : ToObject(o)
    \/ \E o \in Owners : KeysOp(o)
    \/ \E o \in Owners, k \in Literals : HasLit(o, k)
    \/ \E o \in Owners, k \in Literals : GetLit(o, k)
    \/ \E o \in Owners, k \in ObjKeys : HasObj(o, k)
    \/ \E o \in Owners, k \in ObjKeys : GetObj(o, k)

SpecObj == InitObj /\ [][NextObj]_vars

(* ------------------- SpecObj: the claims C1 to C6 -------------------- *)
\* the parent list of o as the read operations see it
ParentList(o) == keys(parents[o], heap).val

\* the lowest index of a parent in seq on which the lookup of key succeeds
\* (0 when there is none)
FirstMatch(seq, key) ==
    LET hits == {i \in 1..Len(seq) : get_value(seq[i], key).val # None}
    IN  IF hits = {} THEN 0
        ELSE CHOOSE i \in hits : \A j \in hits : i <= j

\* C1 (read-your-write): a __get_attr__(k) on o, issued after a successful
\* __set_attr__(k, v) on o with no other set/del of k on o in between,
\* returns v, whatever the parents of o define.
C1_ReadYourWrite ==
    (ret.op = "get_attr" /\ lastSet[ret.this][ret.key] # None)
        => (ret.ok /\ ret.val = lastSet[ret.this][ret.key])

\* C1 witness: a get_attr answered from the own table while a parent
\* defines the same key with another value
C1_Witness ==
    /\ ret.op = "get_attr"
    /\ lastSet[ret.this][ret.key] # None
    /\ \E i \in 1..Len(ParentList(ret.this)) :
          /\ attrs[ParentList(ret.this)[i]][ret.key] # None
          /\ attrs[ParentList(ret.this)[i]][ret.key] # lastSet[ret.this][ret.key]

\* C2 (first match wins): get_lit(k) and get_obj(k) return the value of the
\* lowest-index parent on which the lookup of k succeeds, having visited no
\* parent after it, and Ok(None) when no parent has k.
C2_FirstMatchWins ==
    ret.op \in {"get_lit", "get_obj"} =>
        LET seq == ParentList(ret.this)
            m == FirstMatch(seq, ret.key)
        IN  /\ ret.ok
            /\ m = 0 => (ret.val = None /\ ret.seen = Len(seq))
            /\ m > 0 => (ret.val = get_value(seq[m], ret.key).val /\ ret.seen = m)

\* C2 witness: a get_lit over two parents that both define the key, with
\* different values
C2_Witness ==
    /\ ret.op = "get_lit"
    /\ Len(ParentList(ret.this)) = 2
    /\ attrs[ParentList(ret.this)[1]][ret.key] # None
    /\ attrs[ParentList(ret.this)[2]][ret.key] # None
    /\ attrs[ParentList(ret.this)[1]][ret.key] # attrs[ParentList(ret.this)[2]][ret.key]

\* the five read operations of a Parents
Reads(inner, lit, okey) ==
    <<keys(inner, heap), has_lit(inner, lit), get_lit(inner, lit),
      has_obj(inner, okey), get_obj(inner, okey)>>

C4_OneWayPromotion ==
    [][\A o \in Objs :
          LET Rank(t) == CASE t = "None" -> 0 [] t = "Builtin" -> 1 [] t = "Object" -> 2
          IN  /\ Rank(parents'[o].tag) >= Rank(parents[o].tag)
              /\ parents[o].tag = "Object" => parents'[o] = parents[o]
              /\ (ret'.op = "to_object" /\ ret'.this = o /\ parents[o].tag = "Object")
                    => ret'.id = parents[o].obj]_vars

\* C4 witness: to_object called on a Parents already in state Object,
\* after parents were added
C4_Witness ==
    /\ ret.op = "to_object"
    /\ ret.pre = "Object"
    /\ logical[ret.this] # <<>>

C6_OwnTableOnly ==
    [][\A o \in Objs, k \in Keys :
          (ret'.op \in {"set_attr", "del_attr"} /\ ret'.this = o /\ ret'.key = k) =>
              LET seq == ParentList(o)
                  m == FirstMatch(seq, k)
              IN  /\ \A q \in Objs \ {o} : attrs'[q] = attrs[q]
                  /\ (ret'.op = "del_attr" /\ m > 0) =>
                        /\ (__has_attr__(o, k))' = Ok(TRUE, m)
                        /\ (__get_attr__(o, k))' = Ok(attrs[seq[m]][k], m)]_vars

\* C6 witness: a __del_attr__ that removed the receiver's own value of a
\* key which one of its parents defines
C6_Witness ==
    /\ ret.op = "del_attr"
    /\ ret.ok
    /\ FirstMatch(ParentList(ret.this), ret.key) > 0

(* ----------------------- SpecVal: the operations --------------------- *)
\* two operand objects holding a Boolean, a Number or a Text; `rhs` may be
\* the very object `this`; no object of the attribute model exists
InitVal ==
    /\ cells \in [this : Values, rhs : Args0]
    /\ alias \in BOOLEAN
    /\ alias => cells.this = cells.rhs
    /\ out = OutIdle
    /\ call = CallIdle
    /\ pc = <<>>
    /\ sync = <<>>
    /\ attrs = [o \in Objs |-> [k \in Keys |-> None]]
    /\ parents = [o \in Objs |-> InnerNone]
    /\ heap = [id \in HeapIds |-> FreeCell]
    /\ nextId = NObj + 1
    /\ logical = [o \in Objs |-> <<>>]
    /\ lastSet = [o \in Objs |-> [k \in Keys |-> None]]
    /\ ret = Ret("init", 0, "", 0, TRUE, None, 0, <<>>, "", <<>>, 0)

\* the method `op` was called on `this` with `rhs` and returned r
Apply(op, r) ==
    /\ out' = Out(op, r, cells.this, cells.rhs)
    /\ cells' = [this |-> r.this, rhs |-> IF alias THEN r.this ELSE cells.rhs]
    /\ UNCHANGED alias
    /\ UNCHANGED objVars
    /\ UNCHANGED call
    /\ UNCHANGED thrVars

\* !this, on a Boolean
BoolNot ==
    /\ cells.this.type = "Boolean"
    /\ Apply("!", Not_call(cells.this))

\* this & rhs, on a Boolean; rhs is a Boolean or converts through "@bool"
BoolBitAnd ==
    /\ cells.this.type = "Boolean"
    /\ cells.rhs.type \in {"Boolean", "Number"}
    /\ Apply("&", BitAnd_call(cells.this, cells.rhs))

\* this | rhs, on a Boolean
BoolBitOr ==
    /\ cells.this.type = "Boolean"
    /\ cells.rhs.type \in {"Boolean", "Number"}
    /\ Apply("|", BitOr_call(cells.this, cells.rhs))

\* this ^ rhs, on a Boolean
BoolBitXor ==
    /\ cells.this.type = "Boolean"
    /\ cells.rhs.type \in {"Boolean", "Number"}
    /\ Apply("^", BitXor_call(cells.this, cells.rhs))

\* this &= rhs, this |= rhs, this ^= rhs, on a Boolean; rhs is a Boolean,
\* an object to convert, or missing
BoolBitAndAssign ==
    /\ cells.this.type = "Boolean"
    /\ cells.rhs.type # "Text"
    /\ Apply("&=", BitAndAssign_call(cells.this, cells.rhs, alias))

BoolBitOrAssign ==
    /\ cells.this.type = "Boolean"
    /\ cells.rhs.type # "Text"
    /\ Apply("|=", BitOrAssign_call(cells.this, cells.rhs, alias))

BoolBitXorAssign ==
    /\ cells.this.type = "Boolean"
    /\ cells.rhs.type # "Text"
    /\ Apply("^=", BitXorAssign_call(cells.this, cells.rhs, alias))

\* this == rhs, on a Boolean; rhs is any object
BoolEql ==
    /\ cells.this.type = "Boolean"
    /\ Apply("==", Eql_call(cells.this, cells.rhs, alias))

\* this.@num, on a Boolean
BoolAtNum ==
    /\ cells.this.type = "Boolean"
    /\ Apply("@num", AtNumber_call(cells.this))

\* this == rhs, on a Number; rhs is any object
NumEql ==
    /\ cells.this.type = "Number"
    /\ Apply("==", eql(cells.this, cells.rhs))

\* this.@bool, on a Number
NumAtBool ==
    /\ cells.this.type = "Number"
    /\ Apply("@bool", at_bool(cells.this))

\* this / rhs, on a Number; rhs is a Number or converts through "@num"
NumDiv ==
    /\ cells.this.type = "Number"
    /\ cells.rhs.type \in {"Number", "Boolean"}
    /\ Apply("/", impls_div(cells.this, cells.rhs))

\* this /= rhs, on a Number; the runs keep the receiver within the operand
\* payloads they start from
NumDivAssign ==
    /\ cells.this.type = "Number"
    /\ cells.rhs.type # "Text"
    /\ impls_div_assign(cells.this, cells.rhs).this \in Values
    /\ Apply("/=", impls_div_assign(cells.this, cells.rhs))

\* this + rhs, this - rhs, this * rhs, this % rhs, on a Number
NumMath(fn) ==
    /\ cells.this.type = "Number"
    /\ cells.rhs.type \in {"Number", "Boolean"}
    /\ Apply(MathKey(fn), impls_math(fn, cells.this, cells.rhs))

\* this += rhs, this -= rhs, this *= rhs, this %= rhs, on a Number; the
\* runs keep the receiver within the operand payloads they start from
NumMathAssign(fn) ==
    /\ cells.this.type = "Number"
    /\ cells.rhs.type # "Text"
    /\ impls_math_assign(fn, cells.this, cells.rhs).this \in Values
    /\ Apply(MathKey(fn) \o "=", impls_math_assign(fn, cells.this, cells.rhs))

\* this & rhs, this | rhs, this ^ rhs, this << rhs, this >> rhs, on a
\* Number, in a build with or without overflow checks
NumBit(fn, checks) ==
    /\ cells.this.type = "Number"
    /\ cells.rhs.type \in {"Number", "Boolean"}
    /\ Apply(BitKey(fn), impls_bitwise(fn, cells.this, cells.rhs, checks))

\* this &= rhs, this |= rhs, this ^= rhs, this <<= rhs, this >>= rhs
NumBitAssign(fn, checks) ==
    /\ cells.this.type = "Number"
    /\ cells.rhs.type # "Text"
    /\ Apply(BitKey(fn) \o "=", impls_bitwise_assign(fn, cells.this, cells.rhs, checks))

\* ~this, on a Number
NumBitNot ==
    /\ cells.this.type = "Number"
    /\ Apply("~", impls_bitnot(cells.this))

\* this.round() and this.sqrt(), on a Number
NumRound ==
    /\ cells.this.type = "Number"
    /\ Apply("round", impls_round(cells.this))

NumSqrt ==
    /\ cells.this.type = "Number"
    /\ Apply("sqrt", impls_sqrt(cells.this))

NextVal ==
    \/ BoolNot
    \/ BoolBitAnd
    \/ BoolBitOr
    \/ BoolBitXor
    \/ BoolBitAndAssign
    \/ BoolBitOrAssign
    \/ BoolBitXorAssign
    \/ BoolEql
    \/ BoolAtNum
    \/ NumEql
    \/ NumAtBool
    \/ NumDiv
    \/ NumDivAssign
    \/ \E fn \in MathFns : NumMath(fn)
    \/ \E fn \in MathFns : NumMathAssign(fn)
    \/ \E fn \in BitFns, checks \in BOOLEAN : NumBit(fn, checks)
    \/ \E fn \in BitFns, checks \in BOOLEAN : NumBitAssign(fn, checks)
    \/ NumBitNot
    \/ NumRound
    \/ NumSqrt

SpecVal == InitVal /\ [][NextVal]_vars

(* ------------------- SpecVal: the claims C7 to C10 ------------------- *)
\* the operands are as they were when the last operator was called
OperandsKept == cells.this = out.this0 /\ cells.rhs = out.rhs0

\* C7 (Boolean truth tables): on Boolean values a and b, a & b, a | b,
\* a ^ b and !a return a Boolean that is the logical AND, OR, XOR and NOT,
\* and leave the values of the receiver and of the argument as they were.
C7_TruthTables ==
    LET a == out.this0.b
        b == out.rhs0.b
    IN  /\ (out.op = "!" /\ out.this0.type = "Boolean") =>
              /\ out.ok
              /\ out.res = BoolV(IF a THEN FALSE ELSE TRUE)
              /\ OperandsKept
        /\ (out.op \in {"&", "|", "^"} /\ out.this0.type = "Boolean"
                /\ out.rhs0.type = "Boolean") =>
              /\ out.ok
              /\ out.op = "&" => out.res = BoolV(a = TRUE /\ b = TRUE)
              /\ out.op = "|" => out.res = BoolV(a = TRUE \/ b = TRUE)
              /\ out.op = "^" => out.res = BoolV(a # b)
              /\ OperandsKept

\* C7 witness: TRUE ^ TRUE was computed, on two distinct objects
C7_Witness ==
    /\ out.op = "^"
    /\ out.this0 = BoolV(TRUE)
    /\ out.rhs0 = BoolV(TRUE)
    /\ ~alias

\* the numeric value of a Number as an f64
ValueOf(n) == IF n.tag = "Integer" THEN F(n.i, 1) ELSE n.f

\* two payloads of the same native type with equal values
EqualValue(l, r) ==
    /\ l.type = r.type
    /\ l.type = "Boolean" => l.b = r.b
    /\ l.type = "Number" =>
          /\ ValueOf(l.n).cls # "nan"
          /\ ValueOf(l.n).cls = ValueOf(r.n).cls
          /\ ValueOf(l.n).p * ValueOf(r.n).q = ValueOf(r.n).p * ValueOf(l.n).q

IsZero(n) == ValueOf(n).cls = "fin" /\ ValueOf(n).p = 0

\* C9 (Boolean/Number conversion): Number::from(Boolean) is ONE for true
\* and ZERO for false; Boolean::from(Number) is TRUE iff the number is not
\* equal to zero; converting a Boolean to a Number and back gives the
\* Boolean again.
C9_BooleanNumberRoundTrip ==
    /\ (out.op = "@num" /\ out.this0.type = "Boolean") =>
          /\ out.ok
          /\ out.res = NumV(IF out.this0.b THEN Integer(1) ELSE Integer(0))
          /\ at_bool(out.res).res = out.this0
    /\ (out.op = "@bool" /\ out.this0.type = "Number") =>
          /\ out.ok
          /\ out.res = BoolV(~IsZero(out.this0.n))

\* C9 witness: the Boolean true was converted to a Number
C9_Witness ==
    /\ out.op = "@num"
    /\ out.this0 = BoolV(TRUE)
    /\ out.res.type = "Number"

C11_IntegerDivByZeroIsNaN ==
    (out.op \in {"/", "/="} /\ out.this0.type = "Number"
        /\ out.this0.n.tag = "Integer" /\ out.rhs0 = NumV(Integer(0))) =>
        /\ out.ok
        /\ out.res = NumV(Float(f64_NAN))
        /\ out.op = "/=" => cells.this = NumV(Float(f64_NAN))

\* C11 witness: the Integer 4 was divided by the Integer 0
C11_Witness ==
    /\ out.op = "/"
    /\ out.this0 = NumV(Integer(4))
    /\ out.rhs0 = NumV(Integer(0))
    /\ out.ok

\* the operand was an Integer-tagged Number
IsInt(v) == v.type = "Number" /\ v.n.tag = "Integer"

\* C12 (arithmetic promotion): for + - * % and their in-place forms on
\* Numbers a and b, there is a result; it is Integer-tagged iff a and b
\* both are, and then it is the integer result; it is Float-tagged when
\* either operand is; the in-place forms leave it in the receiver.
C12_ArithmeticPromotion ==
    (out.op \in {"+", "-", "*", "%", "+=", "-=", "*=", "%="}
        /\ out.this0.type = "Number" /\ out.rhs0.type = "Number") =>
        LET a == out.this0.n
            b == out.rhs0.n
        IN  /\ out.ok
            /\ out.res.type = "Number"
            /\ out.res.n.tag = "Integer" <=> (a.tag = "Integer" /\ b.tag = "Integer")
            /\ out.res.n.tag = "Float" <=> (a.tag = "Float" \/ b.tag = "Float")
            /\ (a.tag = "Integer" /\ b.tag = "Integer") =>
                  /\ out.op \in {"+", "+="} => out.res.n.i = a.i + b.i
                  /\ out.op \in {"-", "-="} => out.res.n.i = a.i - b.i
                  /\ out.op \in {"*", "*="} => out.res.n.i = a.i * b.i
                  /\ out.op \in {"%", "%="} =>
                        /\ out.res.n.i + b.i * ((a.i - out.res.n.i) \div b.i) = a.i
                        /\ Abs(out.res.n.i) < Abs(b.i)
            /\ out.op \in {"+=", "-=", "*=", "%="} => cells.this = out.res

\* the bitwise result the operator named op stands for
BitResult(op, a, b) ==
    CASE op \in {"&", "&="} -> i64_and(a, b)
      [] op \in {"|", "|="} -> i64_or(a, b)
      [] op \in {"^", "^="} -> i64_xor(a, b)
      [] op \in {"<<", "<<="} -> i64_shl(a, b)
      [] op \in {">>", ">>="} -> i64_shr(a, b)

\* C13 (bitwise operators compute on integers): for Integer-tagged a and b
\* (a shift amount within 0..63), a & b, a | b, a ^ b, a << b, a >> b
\* return Integer(a op b), the in-place forms leave Integer(a op b) in the
\* receiver, and ~a returns Integer(NOT a).
C13_BitwiseOnIntegers ==
    /\ (out.op \in {"&", "|", "^", "<<", ">>", "&=", "|=", "^=", "<<=", ">>="}
            /\ IsInt(out.this0) /\ IsInt(out.rhs0)
            /\ (out.op \in {"<<", ">>", "<<=", ">>="} => out.rhs0.n.i \in 0..63)) =>
          LET v == NumV(Integer(BitResult(out.op, out.this0.n.i, out.rhs0.n.i)))
          IN  /\ out.ok
              /\ out.res = v
              /\ out.op \in {"&=", "|=", "^=", "<<=", ">>="} => cells.this = v
    /\ (out.op = "~" /\ IsInt(out.this0)) =>
          (out.ok /\ out.res = NumV(Integer((0 - out.this0.n.i) - 1)))

\* the operand was a Float-tagged Number
IsFloat(v) == v.type = "Number" /\ v.n.tag = "Float"

\* C14 (bitwise operators reject floats): when the receiver or the
\* argument of & | ^ << >> (or of an in-place form), or the operand of ~,
\* is Float-tagged, the call returns a NotAnInteger error carrying the
\* receiver's float when the receiver is Float-tagged and the argument's
\* otherwise, and the receiver keeps its value.
C14_BitwiseRejectsFloats ==
    /\ (out.op \in {"&", "|", "^", "<<", ">>", "&=", "|=", "^=", "<<=", ">>="}
            /\ out.this0.type = "Number" /\ out.rhs0.type = "Number"
            /\ (IsFloat(out.this0) \/ IsFloat(out.rhs0))) =>
          /\ ~out.ok
          /\ out.res = NotAnInteger(IF IsFloat(out.this0) THEN out.this0.n.f
                                     ELSE out.rhs0.n.f)
          /\ cells.this = out.this0
    /\ (out.op = "~" /\ IsFloat(out.this0)) =>
          /\ ~out.ok
          /\ out.res = NotAnInteger(out.this0.n.f)
          /\ cells.this = out.this0

\* C14 witness: a bitwise operator was called on two different floats and
\* the error carries the receiver's
C14_Witness ==
    /\ out.op = "|"
    /\ IsFloat(out.this0)
    /\ IsFloat(out.rhs0)
    /\ out.this0 # out.rhs0
    /\ out.res = NotAnInteger(out.this0.n.f)

(* ------------------------------ Parsing ----------------------------- *)
\* A &str is a sequence of characters. The characters the runs use: a
\* blank, the separator, the sign, two decimal digits, the point, and two
\* letters that are digits in a large radix ("e" is also the exponent mark).
Chars == {" ", "_", "-", "0", "3", ".", "e", "z"}

\* the longest &str a run parses with try_from, and with from_str_radix
MaxLen == 4
MaxRadixLen == 3

\* the strings of up to len characters
Strs(len) == UNION {[1..n -> Chars] : n \in 0..len}

\* str::trim: the blanks at both ends go, the ones inside stay
RECURSIVE trim_start(_)
trim_start(s) == IF s # <<>> /\ Head(s) = " " THEN trim_start(Tail(s)) ELSE s

RECURSIVE trim_end(_)
trim_end(s) ==
    IF s # <<>> /\ s[Len(s)] = " " THEN trim_end(SubSeq(s, 1, Len(s) - 1)) ELSE s

trim(s) == trim_end(trim_start(s))

\* the digits and lower-case letters, in the order of their values
DigitChars ==
    <<"0", "1", "2", "3", "4", "5", "6", "7", "8", "9", "a", "b", "c", "d",
      "e", "f", "g", "h", "i", "j", "k", "l", "m", "n", "o", "p", "q", "r",
      "s", "t", "u", "v", "w", "x", "y", "z">>

\* char::to_digit(radix): the value of a digit or letter, when below radix
to_digit(c, radix) ==
    LET d == IF \E i \in 1..36 : DigitChars[i] = c
             THEN (CHOOSE i \in 1..36 : DigitChars[i] = c) - 1
             ELSE radix
    IN  IF d < radix THEN Some(d) ELSE None

\* Result<IntegerType, ParseIntError>
IntOk(n) == [ok |-> TRUE, n |-> n, kind |-> ""]
IntErr(kind) == [ok |-> FALSE, n |-> 0, kind |-> kind]

\* the digit loop of IntegerType::from_str_radix: the digits are
\* accumulated from the left with checked_mul and checked_add, or
\* checked_sub when the literal is negative
RECURSIVE from_digits(_, _, _, _)
from_digits(digits, radix, sign, result) ==
    IF digits = <<>> THEN IntOk(result)
    ELSE LET x == to_digit(Head(digits), radix)
         IN  IF x = None THEN IntErr("InvalidDigit")
             ELSE IF sign = 1 /\ result > i64_MAX \div radix THEN IntErr("PosOverflow")
             ELSE IF sign = -1 /\ 0 - result > Two63 \div radix THEN IntErr("NegOverflow")
             ELSE IF sign = 1 /\ result * radix > i64_MAX - x[1] THEN IntErr("PosOverflow")
             ELSE IF sign = -1 /\ result * radix < i64_MIN + x[1] THEN IntErr("NegOverflow")
             ELSE from_digits(Tail(digits), radix, sign, result * radix + sign * x[1])

\* IntegerType::from_str_radix(src, radix), 2 <= radix <= 36: an optional
\* sign and at least one digit
i64_from_str_radix(src, radix) ==
    IF src = <<>> THEN IntErr("Empty")
    ELSE IF src = <<"-">> THEN IntErr("InvalidDigit")
    ELSE IF Head(src) = "-" THEN from_digits(Tail(src), radix, -1, 0)
    ELSE from_digits(src, radix, 1, 0)

\* Result<Number, FromStrError>, and a call that panicked
ParseOk(num) == [ok |-> TRUE, num |-> num, err |-> "", radix |-> 0, kind |-> ""]
BadInteger(e) == [ok |-> FALSE, num |-> ZERO, err |-> "BadInteger", radix |-> 0, kind |-> e]
BadFloat(e) == [ok |-> FALSE, num |-> ZERO, err |-> "BadFloat", radix |-> 0, kind |-> e]
BadRadix(radix) == [ok |-> FALSE, num |-> ZERO, err |-> "BadRadix", radix |-> radix, kind |-> ""]
ParsePanic == [ok |-> FALSE, num |-> PanicN, err |-> "Panic", radix |-> 0, kind |-> ""]

\* Number::from_str_radix with the radix test off by one at the top
from_str_radix_below36(inp, radix) ==
    IF radix < 2 \/ radix >= 36 THEN BadRadix(radix)
    ELSE LET r == i64_from_str_radix(trim(inp), radix)
         IN  IF r.ok THEN ParseOk(Integer(r.n)) ELSE BadInteger(r.kind)

\* Number::from_str_radix
from_str_radix(inp, radix) ==
    IF radix < 2 \/ radix > 36 THEN BadRadix(radix)
    ELSE LET r == i64_from_str_radix(trim(inp), radix)
         IN  IF r.ok THEN ParseOk(Integer(r.n)) ELSE BadInteger(r.kind)

\* Result<String, ToStringRadixError>, and a call that reached `todo!`
TextOk(s) == [ok |-> TRUE, s |-> s, err |-> ""]
TextErr(err) == [ok |-> FALSE, s |-> <<>>, err |-> err]

\* the digits of n >= 0 in the radix, the most significant first
RECURSIVE fmt_digits(_, _)
fmt_digits(n, radix) ==
    IF n < radix THEN <<DigitChars[n + 1]>>
    ELSE Append(fmt_digits(n \div radix, radix), DigitChars[(n % radix) + 1])

\* format!("{}", i64): a minus sign and the digits of the magnitude
fmt_Display(n) ==
    IF n < 0 THEN <<"-">> \o fmt_digits(0 - n, 10) ELSE fmt_digits(n, 10)

\* format!("{:b}"), "{:o}", "{:x}" of an i64: the digits of the 64 bits
\* read as unsigned, so those of 2^64 + n when n is negative
fmt_bits(n, radix) ==
    IF n < 0 THEN fmt_digits(2 * Two63 + n, radix) ELSE fmt_digits(n, radix)

\* Number::to_string_radix
to_string_radix(self, radix) ==
    LET this == IntegerType_try_from(self)
    IN  IF ~this.ok THEN TextErr("NotAnInteger")
        ELSE CASE radix \in {2, 8, 16} -> TextOk(fmt_bits(this.n, radix))
               [] radix = 10 -> TextOk(fmt_Display(this.n))
               [] radix \in {0, 1} -> TextErr("InvalidRadix")
               [] OTHER -> TextErr("Panic")

\* the Numbers and the radices the runs turn into text
TextNumbers == Numbers \cup {Integer(i64_MIN), Integer(i64_MAX)}
TextRadices == {0, 1, 2, 3, 8, 10, 16}

\* Result<FloatType, ParseFloatError>
FloatOk(f) == [ok |-> TRUE, f |-> f, kind |-> ""]
FloatErr(kind) == [ok |-> FALSE, f |-> f64_NAN, kind |-> kind]

\* the first place of character c in s, 0 when there is none
find(s, c) ==
    IF \E i \in 1..Len(s) : s[i] = c
    THEN CHOOSE i \in 1..Len(s) : s[i] = c /\ \A j \in 1..(i - 1) : s[j] # c
    ELSE 0

\* s holds decimal digits only
all_digits(s) == \A i \in 1..Len(s) : to_digit(s[i], 10) # None

\* the number a sequence of decimal digits spells (0 for none)
decimal(s) == from_digits(s, 10, 1, 0).n

RECURSIVE Pow10(_)
Pow10(k) == IF k = 0 THEN 1 ELSE 10 * Pow10(k - 1)

\* the number of decimal digits of m > 0
RECURSIVE digit_count(_)
digit_count(m) == IF m < 10 THEN 1 ELSE 1 + digit_count(m \div 10)

\* the f64 nearest to sign * m * 10^e10. Zero stays zero; a value of
\* 10^308 or more, spelt with the digits of Chars, is above f64::MAX and
\* becomes an infinity; a value of 10^19 or more is a whole float beyond
\* 2^63; a value below 10^-8 is some tiny fraction; the other values are
\* kept as they are.
decimal_to_f64(sign, m, e10) ==
    IF m = 0 THEN F(0, 1)
    ELSE IF e10 + digit_count(m) - 1 >= 308
         THEN (IF sign < 0 THEN f64_NEG_INFINITY ELSE f64_INFINITY)
    ELSE IF e10 + digit_count(m) - 1 >= 19 THEN F(sign * (Two63 + 1), 1)
    ELSE IF e10 >= 0 THEN F(sign * m * Pow10(e10), 1)
    ELSE IF e10 >= -8 THEN Ratio(sign * m, Pow10(0 - e10))
    ELSE F(sign, Two53)

\* FloatType::from_str(src): an optional sign, digits with an optional
\* point among them (at least one digit), and an optional exponent, which
\* is "e", an optional sign and at least one digit
f64_from_str(src) ==
    IF src = <<>> THEN FloatErr("Empty")
    ELSE
    LET sign == IF Head(src) = "-" THEN -1 ELSE 1
        body == IF Head(src) = "-" THEN Tail(src) ELSE src
        epos == find(body, "e")
        mant == IF epos = 0 THEN body ELSE SubSeq(body, 1, epos - 1)
        expo == IF epos = 0 THEN <<>> ELSE SubSeq(body, epos + 1, Len(body))
        esign == IF expo # <<>> /\ Head(expo) = "-" THEN -1 ELSE 1
        edigits == IF expo # <<>> /\ Head(expo) = "-" THEN Tail(expo) ELSE expo
        ppos == find(mant, ".")
        int == IF ppos = 0 THEN mant ELSE SubSeq(mant, 1, ppos - 1)
        frac == IF ppos = 0 THEN <<>> ELSE SubSeq(mant, ppos + 1, Len(mant))
    IN  IF \/ ~all_digits(int)
           \/ ~all_digits(frac)
           \/ int \o frac = <<>>
           \/ epos # 0 /\ (edigits = <<>> \/ ~all_digits(edigits))
        THEN FloatErr("Invalid")
        ELSE FloatOk(decimal_to_f64(sign, decimal(int \o frac),
                                    esign * decimal(edigits) - Len(frac)))

\* the `while let Some(idx) = inp.rfind('_') { inp.remove(idx); }` loop
RECURSIVE remove_underscores(_)
remove_underscores(inp) ==
    IF find(inp, "_") = 0 THEN inp
    ELSE LET idx == CHOOSE i \in 1..Len(inp) :
                        inp[i] = "_" /\ \A j \in (i + 1)..Len(inp) : inp[j] # "_"
         IN  remove_underscores(SubSeq(inp, 1, idx - 1) \o SubSeq(inp, idx + 1, Len(inp)))

\* .map(Number::from) on a parsed float; the assertion of Number::from may
\* panic
map_Number_from(r) ==
    IF ~r.ok THEN BadFloat(r.kind)
    ELSE IF Number_from_f64(r.f) = PanicN THEN ParsePanic
    ELSE ParseOk(Number_from_f64(r.f))

\* TryFrom<&str> for Number
RECURSIVE try_from(_)
try_from(inp0) ==
    LET inp == trim(inp0)
    IN  IF find(inp, "_") # 0 THEN try_from(remove_underscores(inp))
        ELSE IF i64_from_str_radix(inp, 10).ok
             THEN ParseOk(Integer(i64_from_str_radix(inp, 10).n))
             ELSE map_Number_from(f64_from_str(inp))

\* the radices the runs parse in: both ends of 2..36, their outer
\* neighbours, zero and ten
Radices == {0, 1, 2, 10, 36, 37}

(* ------------------------------- RustFn ----------------------------- *)
\* the number of function pointers the runs wrap
MaxPtr == 2

\* the names and the function pointers (as addresses) given to RustFn::new
FnNames == {"call", "at_text"}
FnPtrs == 1..MaxPtr

\* RustFn::new(name, func): struct RustFn(&'static str, FnType)
RustFn_new(name, func) == [name |-> name, func |-> func]

RustFns == {RustFn_new(n, p) : n \in FnNames, p \in FnPtrs}

\* the bool `==` returns, and a failed assert_eq!
EqOk(b) == [panicked |-> FALSE, val |-> b]
EqPanic == [panicked |-> TRUE, val |-> FALSE]

\* PartialEq::eq for RustFn without its assert_eq!
RustFn_eq_unchecked(self, rhs) == EqOk(self.func = rhs.func)

\* PartialEq::eq for RustFn
RustFn_eq(self, rhs) ==
    LET ptr_eql == self.func = rhs.func
    IN  IF ptr_eql # (self.name = rhs.name) THEN EqPanic ELSE EqOk(ptr_eql)

(* ------------------------ SpecFn: the functions ---------------------- *)
\* the largest k of the integers 2^53 + k the runs compare
MaxBig == 2

\* the Numbers the runs compare: small ones, NaN and the infinities, and
\* integers and floats from 2^53 on
OrdNumbers ==
    {Integer(i) : i \in -1..1}
        \cup {Integer(Two53 + k) : k \in 0..MaxBig}
        \cup {Float(F(1, 2)), Float(F(1, 1)), NAN, INF, Float(f64_NEG_INFINITY)}
        \cup {Float(F(Two53 + k, 1)) : k \in {j \in 0..MaxBig : j % 2 = 0}}

\* the floats the runs build Numbers from: zero, fractions, whole floats,
\* NaN, the infinities, whole floats from 2^53 on, -2^63, 2^63 and whole
\* floats beyond them
FromFloats ==
    {Ratio(p, q) : p \in IntVals, q \in 1..MaxDen}
        \cup {f64_NAN, f64_INFINITY, f64_NEG_INFINITY}
        \cup {F(Two53, 1), F(Two53 + 2, 1), F(0 - Two53, 1)}
        \cup {F(Two63, 1), F(Two63 + 1, 1), F(0 - Two63, 1), F((0 - Two63) - 1, 1)}

\* the inputs a run draws: three Numbers to compare, a float, a &str and a
\* radix, a &str, two RustFns, or a Number and a radix
FnInputs(n, m) ==
    {<<"numbers", a, b, c>> : a \in OrdNumbers, b \in OrdNumbers, c \in OrdNumbers}
        \cup {<<"float", f>> : f \in FromFloats}
        \cup {<<"radix", s, r>> : s \in Strs(m), r \in Radices}
        \cup {<<"str", s>> : s \in Strs(n)}
        \cup {<<"fns", a, b>> : a \in RustFns, b \in RustFns}
        \cup {<<"text", num, r>> : num \in TextNumbers, r \in TextRadices}

\* the inputs are drawn; there is no object and no operand
InitFn ==
    /\ \E i \in FnInputs(MaxLen, MaxRadixLen) : call = Call("init", i, <<>>)
    /\ pc = <<>>
    /\ sync = <<>>
    /\ cells = [this |-> NoV, rhs |-> NoV]
    /\ alias = FALSE
    /\ out = OutIdle
    /\ attrs = [o \in Objs |-> [k \in Keys |-> None]]
    /\ parents = [o \in Objs |-> InnerNone]
    /\ heap = [id \in HeapIds |-> FreeCell]
    /\ nextId = NObj + 1
    /\ logical = [o \in Objs |-> <<>>]
    /\ lastSet = [o \in Objs |-> [k \in Keys |-> None]]
    /\ ret = Ret("init", 0, "", 0, TRUE, None, 0, <<>>, "", <<>>, 0)

\* a.cmp(b), b.cmp(a), b.cmp(c), a.cmp(c) and a == b on the three Numbers
\* drawn
CallCmp ==
    /\ call.fn = "init"
    /\ call.args[1] = "numbers"
    /\ LET a == call.args[2]
           b == call.args[3]
           c == call.args[4]
       IN  call' = Call("cmp", <<a, b, c>>,
                        [ab |-> cmp(a, b), ba |-> cmp(b, a), bc |-> cmp(b, c),
                         ac |-> cmp(a, c), eq |-> Number_eq(a, b)])
    /\ UNCHANGED <<objVars, valVars, thrVars>>

\* Number::from(f) on the float drawn
CallFromF64 ==
    /\ call.fn = "init"
    /\ call.args[1] = "float"
    /\ call' = Call("from_f64", <<call.args[2]>>, Number_from_f64(call.args[2]))
    /\ UNCHANGED <<objVars, valVars, thrVars>>

\* Number::from_str_radix(s, r) on the &str and radix drawn
CallFromStrRadix ==
    /\ call.fn = "init"
    /\ call.args[1] = "radix"
    /\ call' = Call("from_str_radix", <<call.args[2], call.args[3]>>,
                     from_str_radix(call.args[2], call.args[3]))
    /\ UNCHANGED <<objVars, valVars, thrVars>>

\* Number::try_from(s) on the &str drawn
CallTryFrom ==
    /\ call.fn = "init"
    /\ call.args[1] = "str"
    /\ call' = Call("try_from", <<call.args[2]>>, try_from(call.args[2]))
    /\ UNCHANGED <<objVars, valVars, thrVars>>

\* `a == b` on the two RustFns drawn
CallRustFnEq ==
    /\ call.fn = "init"
    /\ call.args[1] = "fns"
    /\ call' = Call("eq", <<call.args[2], call.args[3]>>,
                     RustFn_eq(call.args[2], call.args[3]))
    /\ UNCHANGED <<objVars, valVars, thrVars>>

\* n.to_string_radix(r) on the Number and radix drawn, and
\* Number::from_str_radix of the text it gives
CallToStringRadix ==
    /\ call.fn = "init"
    /\ call.args[1] = "text"
    /\ LET text == to_string_radix(call.args[2], call.args[3])
       IN  call' = Call("to_string_radix", <<call.args[2], call.args[3]>>,
                        [text |-> text,
                         back |-> IF text.ok THEN from_str_radix(text.s, call.args[3])
                                  ELSE ParsePanic])
    /\ UNCHANGED <<objVars, valVars, thrVars>>

NextFn ==
    \/ CallCmp
    \/ CallFromF64
    \/ CallFromStrRadix
    \/ CallTryFrom
    \/ CallRustFnEq
    \/ CallToStringRadix

SpecFn == InitFn /\ [][NextFn]_vars

(* ------------------ SpecFn: the claims C15 to C20 -------------------- *)
IsNaN(n) == n.tag = "Float" /\ n.f.cls = "nan"

\* the reverse of an Ordering
Reverse(o) ==
    CASE o = "Less" -> "Greater" [] o = "Greater" -> "Less" [] OTHER -> o

\* C15 (Number ordering is a total order consistent with equality): for
\* Numbers a, b, c that are not NaN, cmp returns an Ordering, cmp(a, b) is
\* Equal iff a == b, cmp(a, b) is the reverse of cmp(b, a), and cmp is
\* transitive; a cmp with a NaN operand aborts.
C15_TotalOrder ==
    call.fn = "cmp" =>
        LET a == call.args[1]
            b == call.args[2]
            c == call.args[3]
            r == call.res
            Leq(o) == o \in {"Less", "Equal"}
        IN  /\ (IsNaN(a) \/ IsNaN(b)) => r.ab = "Panic"
            /\ (~IsNaN(a) /\ ~IsNaN(b)) =>
                  /\ r.ab \in {"Less", "Equal", "Greater"}
                  /\ r.ab = "Equal" <=> r.eq
                  /\ r.ab = Reverse(r.ba)
            /\ (~IsNaN(a) /\ ~IsNaN(b) /\ ~IsNaN(c)) =>
                  /\ (Leq(r.ab) /\ Leq(r.bc)) => Leq(r.ac)
                  /\ (r.ab = "Equal" /\ r.bc = "Equal") => r.ac = "Equal"
                  /\ (r.ab = "Less" /\ r.bc = "Less") => r.ac = "Less"

\* C16 (float construction collapses whole numbers): Number::from(f)
\* returns, without aborting, Integer(f) when f is finite, whole and within
\* the range of i64 (0.0 included), and Float(f) in every other case.
C16_FloatCollapse ==
    call.fn = "from_f64" =>
        LET f == call.args[1]
            whole == f.cls = "fin" /\ f.q = 1 /\ f.p >= i64_MIN /\ f.p <= i64_MAX
        IN  /\ call.res # PanicN
            /\ whole => call.res = Integer(f.p)
            /\ ~whole => call.res = Float(f)

\* a &str without the blanks at its ends
Trimmed(s) ==
    LET solid == {i \in 1..Len(s) : s[i] # " "}
    IN  IF solid = {} THEN <<>>
        ELSE SubSeq(s, CHOOSE i \in solid : \A j \in solid : i <= j,
                       CHOOSE i \in solid : \A j \in solid : i >= j)

\* the value of a character as a digit
DigitValue(c) ==
    CASE c = "0" -> 0 [] c = "3" -> 3 [] c = "e" -> 14 [] c = "z" -> 35 [] OTHER -> -1

RECURSIVE Pow(_, _)
Pow(b, k) == IF k = 0 THEN 1 ELSE b * Pow(b, k - 1)

RECURSIVE Sum(_, _)
Sum(f, S) == IF S = {} THEN 0 ELSE LET x == CHOOSE x \in S : TRUE IN f[x] + Sum(f, S \ {x})

\* the digits of a literal: what follows its sign
Digits(t) == IF t # <<>> /\ t[1] = "-" THEN Tail(t) ELSE t

\* t is a base-r i64 literal: an optional sign, then one or more digits of
\* base r
IsLiteral(t, r) ==
    /\ Digits(t) # <<>>
    /\ \A i \in 1..Len(Digits(t)) : DigitValue(Digits(t)[i]) \in 0..(r - 1)

\* the value of the base-r literal t
LiteralValue(t, r) ==
    LET d == Digits(t)
        v == Sum([i \in 1..Len(d) |-> DigitValue(d[i]) * Pow(r, Len(d) - i)], 1..Len(d))
    IN  IF t[1] = "-" THEN 0 - v ELSE v

\* C17 (radix validation of from_str_radix): with a radix below 2 or above
\* 36 from_str_radix(s, r) fails with BadRadix(r), whatever s is; with a
\* radix in 2..36 it never fails with BadRadix, returns Integer(n) exactly
\* when the trimmed s is a base-r i64 literal of value n, and fails with
\* BadInteger otherwise.
C17_RadixValidation ==
    call.fn = "from_str_radix" =>
        LET s == call.args[1]
            r == call.args[2]
            t == Trimmed(s)
        IN  IF r < 2 \/ r > 36 THEN call.res = BadRadix(r)
            ELSE /\ call.res.err # "BadRadix"
                 /\ IF IsLiteral(t, r)
                    THEN call.res = ParseOk(Integer(LiteralValue(t, r)))
                    ELSE ~call.res.ok /\ call.res.err = "BadInteger"

\* C17 witness: a negative literal of base 36 with a blank before it was
\* parsed
C17_Witness ==
    /\ call.fn = "from_str_radix"
    /\ call.args[2] = 36
    /\ call.args[1] # <<>>
    /\ Head(call.args[1]) = " "
    /\ call.res.ok
    /\ call.res.num.i < 0

\* a &str without its `_` separators
Unseparated(s) == SelectSeq(s, LAMBDA c : c # "_")

\* two parse results are the same Number or the same kind of failure
SameResult(x, y) == x.ok = y.ok /\ x.num = y.num /\ x.err = y.err

\* C19 (from_str_radix strips `_` separators): for a radix in 2..36,
\* from_str_radix(s, r) returns what from_str_radix returns on s with every
\* `_` removed.
C19_RadixStripsSeparators ==
    (call.fn = "from_str_radix" /\ call.args[2] \in 2..36) =>
        SameResult(call.res, from_str_radix(Unseparated(call.args[1]), call.args[2]))

\* C18 (try_from ignores surrounding whitespace and `_`): try_from(s)
\* terminates and returns what try_from returns on s trimmed and with every
\* `_` removed, and each of its failures is a BadFloat.
C18_TryFromNormalises ==
    call.fn = "try_from" =>
        /\ call.res # ParsePanic
        /\ SameResult(call.res, try_from(Unseparated(Trimmed(call.args[1]))))
        /\ ~call.res.ok => call.res.err = "BadFloat"

\* C20 (RustFn equality is pointer identity behind a consistency check):
\* when the names of a and b are equal exactly when their function pointers
\* are, `a == b` returns whether the pointers are equal; when names and
\* pointers disagree the assertion fires and no bool is returned.
C20_RustFnEquality ==
    call.fn = "eq" =>
        LET a == call.args[1]
            b == call.args[2]
        IN  IF (a.name = b.name) = (a.func = b.func)
            THEN ~call.res.panicked /\ call.res.val = (a.func = b.func)
            ELSE call.res.panicked

\* C20 witness: one function pointer wrapped under two names was compared
\* with itself
C20_Witness ==
    /\ call.fn = "eq"
    /\ call.args[1].func = call.args[2].func
    /\ call.args[1].name # call.args[2].name
    /\ call.res = EqPanic

(* ------------- SpecLock: threads on one Parents (RwLock) ------------- *)
\* the number of threads
NThr == 2

Threads == 1..NThr

\* RwLock<Inner>: the threads holding a read guard, and the thread holding
\* the write guard (0 for none)
RwLockNew == [readers |-> {}, writer |-> 0]

\* a read() that does not wait for the writer
RwLock_read_ready_always(l) == TRUE

\* RwLock::read() returns when no thread holds the write guard
RwLock_read_ready(l) == l.writer = 0

\* RwLock::write() returns when no thread holds any guard
RwLock_write_ready(l) == l.writer = 0 /\ l.readers = {}

\* a thread between two operations; obs is what its last read iterated
\* over, snap the parents given by then, late whether it was called while a
\* writer held the lock
PcIdle == [at |-> "idle", op |-> "", arg |-> 0, obs |-> <<>>, snap |-> <<>>,
           late |-> FALSE, r |-> <<>>]

\* the one Parents the threads share
Shared == 1

\* one shared Parents (None or Builtin([])), the lock free, the threads idle
InitLock ==
    /\ attrs = [o \in Objs |-> [k \in Keys |-> None]]
    /\ parents \in [Objs -> {InnerNone, InnerBuiltin(<<>>)}]
    /\ \A o \in Objs \ {Shared} : parents[o] = InnerNone
    /\ heap = [id \in HeapIds |-> FreeCell]
    /\ nextId = NObj + 1
    /\ logical = [o \in Objs |-> <<>>]
    /\ lastSet = [o \in Objs |-> [k \in Keys |-> None]]
    /\ ret = Ret("init", 0, "", 0, TRUE, None, 0, <<>>, "", <<>>, 0)
    /\ cells = <<>>
    /\ alias = FALSE
    /\ out = <<>>
    /\ call = <<>>
    /\ pc = [t \in Threads |-> PcIdle]
    /\ sync = RwLockNew

\* the add_parent calls under way
Adding == {u \in Threads : pc[u].op = "add_parent" /\ pc[u].at # "idle"}

\* thread t calls a reader (keys, get_lit, has_lit, get_obj, has_obj: all
\* of them run their loop inside with_iter)
BeginRead(t) ==
    /\ pc[t].at = "idle"
    /\ pc' = [pc EXCEPT ![t] = [PcIdle EXCEPT !.at = "read", !.op = "with_iter",
                                             !.late = sync.writer # 0]]
    /\ UNCHANGED <<objVars, valVars, call, sync>>

\* thread t calls to_object or add_parent(p)
BeginWrite(t, op, p) ==
    /\ pc[t].at = "idle"
    /\ op = "to_object" => p = 0
    /\ op = "add_parent" =>
            p > Shared /\ Len(logical[Shared]) + Cardinality(Adding) < MaxParents
    /\ pc' = [pc EXCEPT ![t] = [PcIdle EXCEPT !.at = "write", !.op = op, !.arg = p]]
    /\ UNCHANGED <<objVars, valVars, call, sync>>

\* `self.0.read().unwrap()` of with_iter
AcquireRead(t) ==
    /\ pc[t].at = "read"
    /\ RwLock_read_ready(sync)
    /\ sync' = [sync EXCEPT !.readers = @ \cup {t}]
    /\ pc' = [pc EXCEPT ![t].at = "iterate"]
    /\ UNCHANGED <<objVars, valVars, call>>

\* the closure of with_iter runs over the parents, the read guard held
Iterate(t) ==
    /\ pc[t].at = "iterate"
    /\ pc' = [pc EXCEPT ![t].at = "unlock",
                        ![t].obs = with_iter(parents[Shared], heap).val,
                        ![t].snap = logical[Shared]]
    /\ UNCHANGED <<objVars, valVars, call, sync>>

\* the read guard is dropped at the end of the match of with_iter
ReleaseRead(t) ==
    /\ pc[t].at = "unlock"
    /\ pc[t].op = "with_iter"
    /\ sync' = [sync EXCEPT !.readers = @ \ {t}]
    /\ pc' = [pc EXCEPT ![t] = PcIdle]
    /\ UNCHANGED <<objVars, valVars, call>>

\* `self.0.write().unwrap()` of add_parent and to_object
AcquireWrite(t) ==
    /\ pc[t].at = "write"
    /\ RwLock_write_ready(sync)
    /\ sync' = [sync EXCEPT !.writer = t]
    /\ pc' = [pc EXCEPT ![t].at = IF pc[t].op = "to_object" THEN "replace" ELSE "push"]
    /\ UNCHANGED <<objVars, valVars, call>>

\* the match of add_parent: the assignment or the push
AddParentLocked(t) ==
    LET inner == parents[Shared]
        r == add_parent(inner, HeldCell(inner), pc[t].arg)
    IN  /\ pc[t].at = "push"
        /\ parents' = [parents EXCEPT ![Shared] = r.inner]
        /\ heap' = IF inner.tag = "Object"
                   THEN [heap EXCEPT ![inner.obj] = r.cell] ELSE heap
        /\ logical' = [logical EXCEPT ![Shared] = IF r.ok THEN Append(@, pc[t].arg) ELSE @]
        /\ pc' = [pc EXCEPT ![t].at = "unlock"]
        /\ UNCHANGED <<attrs, nextId, lastSet, ret, valVars, call, sync>>

\* the first half of to_object: the object is made; for Builtin,
\* `std::mem::replace(vec, vec![])` leaves an empty vector behind
ToObjectReplace(t) ==
    LET inner == parents[Shared]
        r == to_object(inner, nextId)
    IN  /\ pc[t].at = "replace"
        /\ parents' = [parents EXCEPT ![Shared] =
                           IF inner.tag = "Builtin" THEN InnerBuiltin(<<>>) ELSE inner]
        /\ heap' = IF r.fresh THEN [heap EXCEPT ![r.obj] = r.cell] ELSE heap
        /\ nextId' = IF r.fresh THEN nextId + 1 ELSE nextId
        /\ pc' = [pc EXCEPT ![t].at = "store", ![t].r = r.inner]
        /\ UNCHANGED <<attrs, logical, lastSet, ret, valVars, call, sync>>

\* the second half of to_object: `*inner = Inner::Object(obj.clone())`
ToObjectStore(t) ==
    /\ pc[t].at = "store"
    /\ parents' = [parents EXCEPT ![Shared] = pc[t].r]
    /\ pc' = [pc EXCEPT ![t].at = "unlock"]
    /\ UNCHANGED <<attrs, heap, nextId, logical, lastSet, ret, valVars, call, sync>>

\* the write guard is dropped when add_parent or to_object returns
ReleaseWrite(t) ==
    /\ pc[t].at = "unlock"
    /\ pc[t].op # "with_iter"
    /\ sync' = [sync EXCEPT !.writer = 0]
    /\ pc' = [pc EXCEPT ![t] = PcIdle]
    /\ UNCHANGED <<objVars, valVars, call>>

NextLock ==
    \/ \E t \in Threads : BeginRead(t)
    \/ \E t \in Threads, op \in {"to_object", "add_parent"}, p \in {0} \cup Objs :
            BeginWrite(t, op, p)
    \/ \E t \in Threads : AcquireRead(t)
    \/ \E t \in Threads : Iterate(t)
    \/ \E t \in Threads : ReleaseRead(t)
    \/ \E t \in Threads : AcquireWrite(t)
    \/ \E t \in Threads : AddParentLocked(t)
    \/ \E t \in Threads : ToObjectReplace(t)
    \/ \E t \in Threads : ToObjectStore(t)
    \/ \E t \in Threads : ReleaseWrite(t)

SpecLock == InitLock /\ [][NextLock]_vars

\* C21 (readers see a consistent snapshot): a reader running while other
\* threads call to_object and add_parent iterates over the whole list of
\* the parents given so far (the list from before or from after each
\* structural change, never the vector to_object has emptied), and while
\* no writer is at work the list holds every parent an add_parent has
\* added.
C21_ConsistentSnapshot ==
    /\ \A t \in Threads :
            (pc[t].op = "with_iter" /\ pc[t].at = "unlock") =>
                pc[t].obs = pc[t].snap
    /\ sync.writer = 0 => with_iter(parents[Shared], heap).val = logical[Shared]

\* C21 witness: a reader called while to_object or add_parent held the
\* lock has iterated over two parents, by then moved into the new object
C21_Witness ==
    \E t \in Threads :
        /\ pc[t].op = "with_iter"
        /\ pc[t].at = "unlock"
        /\ pc[t].late
        /\ Len(pc[t].obs) = 2
        /\ parents[Shared].tag = "Object"

(* ------------------ SpecVal: the claims C24 to C28 ------------------ *)
\* the bool an operand stands for, a Number through "@bool"
BoolOf(v) == IF v.type = "Boolean" THEN v.b ELSE ~IsZero(v.n)

\* C25 (in-place Boolean XOR): after `this ^= rhs` on two Booleans of
\* values a and b, this holds a XOR b and the object returned is this
\* itself; when rhs is the very object this is, this becomes false.
C25_InPlaceXor ==
    (out.op = "^=" /\ out.this0.type = "Boolean" /\ out.rhs0.type = "Boolean") =>
        /\ out.ok
        /\ out.res = ThisV
        /\ cells.this = BoolV(out.this0.b # out.rhs0.b)
        /\ alias => cells.this = BoolV(FALSE)

\* C26 (in-place Boolean AND and OR): after `this &= rhs` this holds
\* a AND b and after `this |= rhs` a OR b, b being the value of rhs, through
\* "@bool" when rhs is not a Boolean; the object returned is this itself,
\* rhs is unchanged, and when rhs is the very object this is, this is
\* neither locked for writing nor modified.
C26_InPlaceAndOr ==
    (out.op \in {"&=", "|="} /\ out.this0.type = "Boolean" /\ Convertible(out.rhs0)) =>
        /\ out.ok
        /\ out.res = ThisV
        /\ out.op = "&=" => cells.this = BoolV(out.this0.b /\ BoolOf(out.rhs0))
        /\ out.op = "|=" => cells.this = BoolV(out.this0.b \/ BoolOf(out.rhs0))
        /\ ~alias => cells.rhs = out.rhs0
        /\ alias => ~out.wlock /\ cells.this = out.this0 /\ cells.rhs = out.rhs0

\* C26 witness: `true &= 0` on a Boolean and a Number made the receiver
\* false
C26_Witness ==
    /\ out.op = "&="
    /\ out.this0 = BoolV(TRUE)
    /\ out.rhs0 = NumV(ZERO)
    /\ out.conv
    /\ cells.this = BoolV(FALSE)

\* C24 (no unwinding for Number): a method of the Number mapping called on
\* a Number with Number arguments returns Ok or Err and never panics.
C24_NoUnwinding ==
    (out.this0.type = "Number" /\ out.rhs0.type \in {"Number", "None"}) =>
        out.res # PanicV

\* the in-place operators of Number and of Boolean
InPlaceOps == {"+=", "-=", "*=", "/=", "%=", "&=", "|=", "^=", "<<=", ">>="}

\* C28 (a failing in-place operator): when argument 0 is missing or cannot
\* be converted to the type of the receiver, an in-place operator of Number
\* or of Boolean returns that error and the receiver holds the value it had
\* before the call.
C28_FailureKeepsReceiver ==
    (out.op \in InPlaceOps /\ out.rhs0 \in {NoV, PlainV}) =>
        /\ ~out.ok
        /\ out.res = IF out.rhs0 = NoV THEN ArgErrorV ELSE ConvErrorV
        /\ cells.this = out.this0

\* C28 witness: `/=` on the Number one with an argument that has no "@num"
\* returned the error of the conversion
C28_Witness ==
    /\ out.op = "/="
    /\ out.this0 = NumV(ONE)
    /\ out.rhs0 = PlainV
    /\ out.res = ConvErrorV
    /\ cells.this = NumV(ONE)

(* ------ SpecOnce: threads making Boolean objects (lazy statics) ------ *)
\* In this specification `sync` holds the three lazy statics, `cells` the
\* store of the objects made so far (an object's identity is its index),
\* `pc` each thread's position in Object::from(bool), and `out` the
\* receiver of the last in-place operator applied.

\* the objects the runs may make
MaxCells == 5

\* the lazy statics: TRUE and FALSE of Boolean::new_object, and the
\* memoized mapping object of Boolean
LazyNames == {"TRUE", "FALSE", "mapping"}
LazyOf(b) == IF b THEN "TRUE" ELSE "FALSE"

\* a lazy static: not yet used, its initializer running, or holding its
\* object; `built` counts the runs of the initializer that have finished
LazyNew == [state |-> "new", val |-> 0, built |-> 0]

\* a Once that lets a second thread in while the initializer runs
Once_must_wait_never(c) == FALSE

\* lazy_static! / Once: a dereference waits while another thread runs the
\* initializer
Once_must_wait(c) == c.state = "running"

\* the state of a lazy static when its initializer has returned `id`
Once_complete(c, id) == [state |-> "done", val |-> id, built |-> c.built + 1]

\* Object::new_with_parent(data, vec![mapping]) for a Boolean, and the
\* mapping object
BoolObj(b, map) == [kind |-> "Boolean", b |-> b, parent |-> map]
MappingObj == [kind |-> "Mapping", b |-> FALSE, parent |-> 0]

\* Object::deep_clone: a copy of the object under a new identity
deep_clone(store, id) == [store |-> Append(store, store[id]), id |-> Len(store) + 1]

\* new_object that hands out the template itself (`TRUE.clone()`)
new_object_shared(store, tmpl) == [store |-> store, id |-> tmpl]

\* Boolean::new_object, once TRUE or FALSE is dereferenced
new_object(store, tmpl) == deep_clone(store, tmpl)

\* a thread's position: where it is in Object::from(b), the mapping and
\* the template it got, and the object it holds
OnceIdle == [at |-> "idle", b |-> FALSE, map |-> 0, tmpl |-> 0, obj |-> 0]

InitOnce ==
    /\ attrs = <<>>
    /\ parents = <<>>
    /\ heap = <<>>
    /\ nextId = 0
    /\ logical = <<>>
    /\ lastSet = <<>>
    /\ ret = <<>>
    /\ cells = <<>>
    /\ alias = FALSE
    /\ out = [id |-> 0]
    /\ call = <<>>
    /\ pc = [t \in Threads |-> OnceIdle]
    /\ sync = [c \in LazyNames |-> LazyNew]

onceFrame == <<objVars, alias, call>>

\* thread t calls Object::from(b)
FromBool(t, b) ==
    /\ pc[t].at = "idle"
    /\ pc' = [pc EXCEPT ![t] = [OnceIdle EXCEPT !.at = "lazy", !.b = b]]
    /\ UNCHANGED <<onceFrame, cells, out, sync>>

\* t dereferences TRUE or FALSE: it gets the template, or enters the
\* initializer
DerefTemplate(t) ==
    LET c == sync[LazyOf(pc[t].b)]
    IN  /\ pc[t].at = "lazy"
        /\ ~Once_must_wait(c)
        /\ IF c.state = "done"
           THEN /\ pc' = [pc EXCEPT ![t].at = "clone", ![t].tmpl = c.val]
                /\ UNCHANGED sync
           ELSE /\ pc' = [pc EXCEPT ![t].at = "init"]
                /\ sync' = [sync EXCEPT ![LazyOf(pc[t].b)].state = "running"]
        /\ UNCHANGED <<onceFrame, cells, out>>

\* inside the initializer of the template, t calls Boolean::mapping()
DerefMapping(t) ==
    LET c == sync["mapping"]
    IN  /\ pc[t].at = "init"
        /\ ~Once_must_wait(c)
        /\ IF c.state = "done"
           THEN /\ pc' = [pc EXCEPT ![t].at = "build", ![t].map = c.val]
                /\ UNCHANGED sync
           ELSE /\ pc' = [pc EXCEPT ![t].at = "init_mapping"]
                /\ sync' = [sync EXCEPT !["mapping"].state = "running"]
        /\ UNCHANGED <<onceFrame, cells, out>>

\* t makes the mapping object and the lazy static takes it
BuildMapping(t) ==
    /\ pc[t].at = "init_mapping"
    /\ Len(cells) < MaxCells
    /\ cells' = Append(cells, MappingObj)
    /\ sync' = [sync EXCEPT !["mapping"] = Once_complete(@, Len(cells) + 1)]
    /\ pc' = [pc EXCEPT ![t].at = "build", ![t].map = Len(cells) + 1]
    /\ UNCHANGED <<onceFrame, out>>

\* t makes the template with Object::new_with_parent and the lazy static
\* takes it
BuildTemplate(t) ==
    /\ pc[t].at = "build"
    /\ Len(cells) < MaxCells
    /\ cells' = Append(cells, BoolObj(pc[t].b, pc[t].map))
    /\ sync' = [sync EXCEPT ![LazyOf(pc[t].b)] = Once_complete(@, Len(cells) + 1)]
    /\ pc' = [pc EXCEPT ![t].at = "clone", ![t].tmpl = Len(cells) + 1]
    /\ UNCHANGED <<onceFrame, out>>

\* t returns TRUE.deep_clone() or FALSE.deep_clone()
NewObject(t) ==
    LET r == new_object(cells, pc[t].tmpl)
    IN  /\ pc[t].at = "clone"
        /\ Len(cells) < MaxCells
        /\ cells' = r.store
        /\ pc' = [pc EXCEPT ![t].at = "held", ![t].obj = r.id]
        /\ UNCHANGED <<onceFrame, out, sync>>

\* the in-place operators of Boolean
BoolAssign(op, this, rhs, identical) ==
    CASE op = "&=" -> BitAndAssign_call(this, rhs, identical)
      [] op = "|=" -> BitOrAssign_call(this, rhs, identical)
      [] op = "^=" -> BitXorAssign_call(this, rhs, identical)

\* t applies `&=`, `|=` or `^=` to the object it holds, the argument being
\* the object u holds
Mutate(t, op, u) ==
    LET this == pc[t].obj
        rhs == pc[u].obj
        r == BoolAssign(op, BoolV(cells[this].b), BoolV(cells[rhs].b), this = rhs)
    IN  /\ pc[t].at = "held"
        /\ pc[u].at = "held"
        /\ cells' = [cells EXCEPT ![this].b = r.this.b]
        /\ out' = [id |-> this]
        /\ UNCHANGED <<onceFrame, pc, sync>>

\* t lets go of its object, which stays where it is
Release(t) ==
    /\ pc[t].at = "held"
    /\ pc' = [pc EXCEPT ![t] = OnceIdle]
    /\ UNCHANGED <<onceFrame, cells, out, sync>>

NextOnce ==
    \/ \E t \in Threads, b \in BOOLEAN : FromBool(t, b)
    \/ \E t \in Threads : DerefTemplate(t)
    \/ \E t \in Threads : DerefMapping(t)
    \/ \E t \in Threads : BuildMapping(t)
    \/ \E t \in Threads : BuildTemplate(t)
    \/ \E t \in Threads : NewObject(t)
    \/ \E t, u \in Threads, op \in {"&=", "|=", "^="} : Mutate(t, op, u)
    \/ \E t \in Threads : Release(t)

SpecOnce == InitOnce /\ [][NextOnce]_vars

(* ----------------- SpecOnce: the claims C22 and C23 ----------------- *)
\* a lazy static holds an object its initializer finished
Initialised(name) ==
    /\ sync[name].state = "done"
    /\ sync[name].val \in 1..Len(cells)

Templates == {sync[name].val : name \in {n \in {"TRUE", "FALSE"} : sync[n].state = "done"}}

\* C23 (Boolean objects are cells of their own): an object made from a
\* bool has an identity no other held object and no template has, it
\* starts with the value asked for, an in-place operator changes the value
\* of its receiver only, and the templates keep their values.
C23_IndependentCells ==
    [][/\ \A t \in Threads : pc'[t].at = "held" =>
              /\ pc'[t].obj \notin Templates'
              /\ \A u \in Threads \ {t} : pc'[u].at = "held" => pc'[u].obj # pc'[t].obj
       /\ \A t \in Threads : (pc[t].at = "clone" /\ pc'[t].at = "held") =>
              cells'[pc'[t].obj].b = pc[t].b
       /\ \A id \in 1..Len(cells) :
              cells'[id] # cells[id] => (out'.id = id /\ id \notin Templates)
       /\ \A b \in BOOLEAN :
              sync'[LazyOf(b)].state = "done" => cells'[sync'[LazyOf(b)].val].b = b
      ]_vars

\* C23 witness: an object made from true was set to false in place, while
\* another thread holds an object made from true that is still true
C23_Witness ==
    \E t, u \in Threads :
        /\ t # u
        /\ pc[t].at = "held" /\ pc[t].b /\ ~cells[pc[t].obj].b
        /\ pc[u].at = "held" /\ pc[u].b /\ cells[pc[u].obj].b
        /\ out.id = pc[t].obj
        /\ cells[sync["TRUE"].val].b

(* --------------- SpecClone: a Parents and its clone ------------------ *)
\* In this specification `parents` holds the Inner of the Parents p and,
\* once it is made, of its clone q; `heap`, `nextId` are as in SpecObj and
\* `ret` holds the last operation and the side it was called on.

\* #[derive(Clone)] for Inner, called by Clone for Parents: the vector of a
\* Builtin is copied, the Object of state Object is a second handle on the
\* same object
Inner_clone(inner) ==
    CASE inner.tag = "None" -> InnerNone
      [] inner.tag = "Builtin" -> InnerBuiltin(inner.vec)
      [] inner.tag = "Object" -> InnerObject(inner.obj)

Sides == {"p", "q"}
OtherSide(s) == IF s = "p" THEN "q" ELSE "p"

\* p is None or Builtin([]); there is no clone yet
InitClone ==
    /\ parents \in [{"p"} -> {InnerNone, InnerBuiltin(<<>>)}]
    /\ heap = [id \in HeapIds |-> FreeCell]
    /\ nextId = NObj + 1
    /\ ret = [op |-> "init", on |-> "", ok |-> TRUE]
    /\ attrs = <<>>
    /\ logical = <<>>
    /\ lastSet = <<>>
    /\ cells = <<>>
    /\ alias = FALSE
    /\ out = <<>>
    /\ call = <<>>
    /\ pc = <<>>
    /\ sync = <<>>

cloneFrame == <<attrs, logical, lastSet, valVars, call, thrVars>>

\* q = p.clone()
ParentsClone ==
    /\ "q" \notin DOMAIN parents
    /\ parents' = [s \in Sides |-> IF s = "p" THEN parents["p"] ELSE Inner_clone(parents["p"])]
    /\ ret' = [op |-> "clone", on |-> "p", ok |-> TRUE]
    /\ UNCHANGED <<heap, nextId, cloneFrame>>

\* s.add_parent(x), the list staying within MaxParents
SideAddParent(s, x) ==
    LET inner == parents[s]
        r == add_parent(inner, HeldCell(inner), x)
    IN  /\ Len(keys(inner, heap).val) < MaxParents
        /\ parents' = [parents EXCEPT ![s] = r.inner]
        /\ heap' = IF inner.tag = "Object"
                   THEN [heap EXCEPT ![inner.obj] = r.cell] ELSE heap
        /\ ret' = [op |-> "add_parent", on |-> s, ok |-> r.ok]
        /\ UNCHANGED <<nextId, cloneFrame>>

\* s.to_object()
SideToObject(s) ==
    LET inner == parents[s]
        r == to_object(inner, nextId)
    IN  /\ parents' = [parents EXCEPT ![s] = r.inner]
        /\ heap' = IF r.fresh THEN [heap EXCEPT ![r.obj] = r.cell] ELSE heap
        /\ nextId' = IF r.fresh THEN nextId + 1 ELSE nextId
        /\ ret' = [op |-> "to_object", on |-> s, ok |-> TRUE]
        /\ UNCHANGED cloneFrame

NextClone ==
    \/ ParentsClone
    \/ \E s \in DOMAIN parents, x \in Objs : SideAddParent(s, x)
    \/ \E s \in DOMAIN parents : SideToObject(s)

SpecClone == InitClone /\ [][NextClone]_vars

(* ---------------------- SpecClone: the claim C29 --------------------- *)
\* C29 (a clone of a Parents is independent): once q = p.clone() is made,
\* an add_parent on one of p and q leaves the keys() of the other as they
\* were, whatever the representation of p was when it was cloned.
C29_CloneIndependent ==
    [][\A s \in Sides :
          ("q" \in DOMAIN parents /\ ret'.op = "add_parent" /\ ret'.on = s) =>
              keys(parents'[OtherSide(s)], heap') = keys(parents[OtherSide(s)], heap)
      ]_vars

(* ------------------------ SpecFn: the claim C30 --------------------- *)
\* C30 (radix text round trip): for an Integer n, negative ones included,
\* and a radix r of 2, 8, 10 or 16, from_str_radix(n.to_string_radix(r), r)
\* succeeds and equals n; to_string_radix of a Float is NotAnInteger, and
\* of an Integer with radix 0 or 1 InvalidRadix.
C30_RadixRoundTrip ==
    call.fn = "to_string_radix" =>
        LET n == call.args[1]
            r == call.args[2]
        IN  /\ (n.tag = "Integer" /\ r \in {2, 8, 10, 16}) =>
                  /\ call.res.text.ok
                  /\ call.res.back.ok
                  /\ call.res.back.num = n
            /\ n.tag = "Float" => call.res.text = TextErr("NotAnInteger")
            /\ (n.tag = "Integer" /\ r \in {0, 1}) =>
                  call.res.text = TextErr("InvalidRadix")

(* ------------ SpecWalk: one lookup, frame by frame ------------------- *)
\* In this specification `parents` is a graph of objects drawn at the
\* start, cycles included, `attrs[n]` tells whether object n has the key in
\* its own table, `pc` is the call stack of the lookup (one frame for each
\* Parents::get_lit / has_lit / get_obj / has_obj under way, with the place
\* of its loop), and `ret` the state of the call on the receiver.

\* the objects of the graph
NNodes == 2
Nodes == 1..NNodes

\* the frames the stack of a run may hold: two more than there are
\* objects, so that a walk which stops there has gone round a cycle
MaxDepth == NNodes + 2

\* the parent lists: up to MaxParents objects, in ascending order
Ascending(S) ==
    CHOOSE s \in [1..Cardinality(S) -> S] : \A i, j \in DOMAIN s : i < j => s[i] < s[j]
ParentVecs == {Ascending(S) : S \in {T \in SUBSET Nodes : Cardinality(T) <= MaxParents}}

\* the four lookups of Parents, which run the same loop
Lookups == {"get_lit", "has_lit", "get_obj", "has_obj"}

\* the parents of n, as with_iter hands them to the loop
ParentsOf(n) == with_iter(parents[n], heap).val

\* `parent.get_value_lit(key)` and its likes when the parent has not the
\* key itself, with a test that the parent is not already being visited
descend_unvisited(stack, p) == \A i \in 1..Len(stack) : stack[i].obj # p

\* `parent.get_value_lit(key)` and its likes when the parent has not the
\* key itself: the lookup goes on in the Parents of the parent, whatever
\* is being visited
descend(stack, p) == TRUE

Frame(n, i) == [obj |-> n, i |-> i]

\* the stack after the frame on top returned: the loop below it takes its
\* next parent
Popped(stack) ==
    LET rest == SubSeq(stack, 1, Len(stack) - 1)
    IN  IF rest = <<>> THEN rest
        ELSE [rest EXCEPT ![Len(rest)].i = @ + 1]

InitWalk ==
    /\ parents \in [Nodes -> {InnerBuiltin(v) : v \in ParentVecs}]
    /\ attrs \in [Nodes -> BOOLEAN]
    /\ heap = <<>>
    /\ pc = <<>>
    /\ ret = [status |-> "idle", op |-> "", this |-> 0, found |-> FALSE]
    /\ nextId = 0
    /\ logical = <<>>
    /\ lastSet = <<>>
    /\ cells = <<>>
    /\ alias = FALSE
    /\ out = <<>>
    /\ call = <<>>
    /\ sync = <<>>

walkFrame == <<attrs, parents, heap, nextId, logical, lastSet, valVars, call, sync>>

\* parents[o].get_lit(key), has_lit, get_obj or has_obj is called
WalkCall(o, op) ==
    /\ ret.status = "idle"
    /\ pc' = <<Frame(o, 1)>>
    /\ ret' = [status |-> "running", op |-> op, this |-> o, found |-> FALSE]
    /\ UNCHANGED walkFrame

\* the loop on top of the stack takes its next parent: the parent has the
\* key, or the lookup goes on in the Parents of the parent
WalkParent ==
    LET top == pc[Len(pc)]
        p == ParentsOf(top.obj)[top.i]
    IN  /\ ret.status = "running"
        /\ ~ret.found
        /\ top.i <= Len(ParentsOf(top.obj))
        /\ IF attrs[p]
           THEN /\ ret' = [ret EXCEPT !.found = TRUE]
                /\ UNCHANGED pc
           ELSE /\ Len(pc) < MaxDepth
                /\ pc' = IF descend(pc, p) THEN Append(pc, Frame(p, 1))
                          ELSE [pc EXCEPT ![Len(pc)].i = @ + 1]
                /\ UNCHANGED ret
        /\ UNCHANGED walkFrame

\* the loop on top of the stack has no parent left: Ok(None) or false
WalkExhausted ==
    LET top == pc[Len(pc)]
    IN  /\ ret.status = "running"
        /\ ~ret.found
        /\ top.i > Len(ParentsOf(top.obj))
        /\ pc' = Popped(pc)
        /\ ret' = IF Len(pc) = 1 THEN [ret EXCEPT !.status = "done"] ELSE ret
        /\ UNCHANGED walkFrame

\* a parent gave the value: the loop on top returns it at once
WalkReturn ==
    /\ ret.status = "running"
    /\ ret.found
    /\ pc' = SubSeq(pc, 1, Len(pc) - 1)
    /\ ret' = IF Len(pc) = 1 THEN [ret EXCEPT !.status = "done"] ELSE ret
    /\ UNCHANGED walkFrame

WalkStep == WalkParent \/ WalkExhausted \/ WalkReturn

NextWalk ==
    \/ \E o \in Nodes, op \in Lookups : WalkCall(o, op)
    \/ WalkParent
    \/ WalkExhausted
    \/ WalkReturn

\* a call that has started keeps running: the lookup is sequential code of
\* one thread
SpecWalk == InitWalk /\ [][NextWalk]_vars /\ WF_vars(WalkStep)

(* ---------------------- SpecWalk: the claim C27 ---------------------- *)
\* the objects reached from n by one or more parent links
RECURSIVE Closure(_, _)
Closure(S, k) ==
    IF k = 0 THEN S
    ELSE Closure(S \cup UNION {{ParentsOf(n)[i] : i \in 1..Len(ParentsOf(n))} : n \in S}, k - 1)
ChainOf(n) == Closure({ParentsOf(n)[i] : i \in 1..Len(ParentsOf(n))}, NNodes)

Acyclic == \A n \in Nodes : n \notin ChainOf(n)
CycleOnChain(o) == \E n \in ChainOf(o) : n \in ChainOf(n)
NoKeyOnChain(o) == \A n \in ChainOf(o) : ~attrs[n]

\* C27 (termination of lookups): on an acyclic graph every get_lit,
\* has_lit, get_obj and has_obj that was called returns; when the chain of
\* the receiver holds a cycle and no object on it has the key, the call
\* never returns.
C27_LookupTermination ==
    /\ (ret.status = "running" /\ Acyclic) ~> (ret.status = "done")
    /\ []((ret.status # "idle" /\ CycleOnChain(ret.this) /\ NoKeyOnChain(ret.this))
            => ret.status # "done")

\* C27 witness: a lookup of a key no object has, on a chain with a cycle,
\* has more frames on its stack than there are objects
C27_Witness ==
    /\ ret.status = "running"
    /\ CycleOnChain(ret.this)
    /\ NoKeyOnChain(ret.this)
    /\ Len(pc) > NNodes

====
